---- MODULE Spec2Model ----
(***************************************************************************)
(* The streaming render pipeline of REAL-Video-Enhancer's backend:         *)
(*   FFmpegRead.read_frames_into_queue  (reader thread)                    *)
(*   Render.render                      (render thread)                    *)
(*   FFmpegWrite.write_out_frames       (writer thread)                    *)
(*   InformationWriteOut.writeOutInformation (telemetry thread)            *)
(* joined by two queue.Queue(maxsize=25) objects and the shared pause byte.*)
(***************************************************************************)
EXTENDS Integers, Sequences, FiniteSets, TLC

(***************************************************************************)
(* Bounds of the model.                                                    *)
(***************************************************************************)
MaxFrames == 3
MaxFactor == 3
MaxPauseWrites == 2
MaxAccept == 1
LiveFrames == 3
MaxOps == 4

\* the calls made on one interpolator or one scene detector
MaxCalls == 4

\* twice the largest interpolation factor handed to an interpolator
MaxTwiceFactor == 6

(***************************************************************************)
(* Program constants.                                                      *)
(***************************************************************************)
\* queue.Queue(maxsize=25) of FFmpegRead and of FFmpegWrite
QueueMaxSize == 25
\* Render.__init__: sceneDetectSensitivity: float = 3.0
sceneDetectSensitivity == 3

VARIABLES
    cfg,            \* Render.__init__ arguments that render() branches on
    video,          \* the decoder's output: one mean value per full frame
    accepts,        \* writes the encoder takes before it stalls (-1: never stalls)
    readPos,        \* number of full chunks read from the decoder's stdout
    readQueue,      \* FFmpegRead.readQueue
    rpc, rframe,    \* reader thread: position, Frame in hand
    writeQueue,     \* FFmpegWrite.writeQueue
    pc,             \* render thread position
    frame,          \* render(): local frame
    gen,            \* the generator object interpolated_frames (None when not live)
    interpolated_frame, \* render(): local interpolated_frame (Frame or bytes)
    frames_rendered,    \* render(): local frames_rendered
    frame0,         \* InterpolateRifeTorch.frame0
    image0mean,     \* NPMeanSCDetect.image0mean (None before the first frame)
    previewFrame, framesRendered, isPaused, stop, tpc,  \* InformationWriteOut
    pauseByte, pauseWrites,     \* pausedSharedMemory.buf[0], writes done by the controller
    wpc, wframe,    \* writer thread: position, item in hand
    encoderIn,      \* buffers written to writeProcess.stdin, in order
    stdinClosed, exit_code, logDumped,
    processExit,    \* -1 while running, else the status given to os._exit
    decPuts, encPuts,   \* every item put on readQueue / writeQueue, in order
    h,              \* history used to state properties only
    frm,            \* Frame objects exercised on their own: heap, fields, results
    itp,            \* an interpolator object exercised on its own
    scd,            \* a SceneDetect object exercised on its own
    main            \* Render.__init__ on the main thread, and the MPVOutput thread

inputVars == <<cfg, video, accepts>>
readerVars == <<readPos, rpc, rframe>>
renderVars == <<pc, frame, gen, interpolated_frame, frames_rendered>>
transformVars == <<frame0, image0mean>>
telemetryVars == <<previewFrame, framesRendered, isPaused, stop, tpc>>
pauseVars == <<pauseByte, pauseWrites>>
writerVars == <<wpc, wframe, encoderIn, stdinClosed, exit_code, logDumped>>

\* state that the four pipeline threads never touch
unitVars == <<frm, itp, scd, main>>

\* everything the four threads and the controller work on
pipelineVars == <<inputVars, readerVars, readQueue, writeQueue, renderVars, transformVars,
                  telemetryVars, pauseVars, writerVars, processExit, decPuts, encPuts, h>>

vars == <<pipelineVars, unitVars>>

(***************************************************************************)
(* Values.  None is Python's None.  A pixel content is named by the source *)
(* frames it was computed from and the conversions applied to it.          *)
(***************************************************************************)
None == [none |-> TRUE]

\* the raw chunk number k as read from the decoder
Chunk(k) == [a |-> 0, b |-> k, t |-> 0, ops |-> <<>>]

Apply(px, op) == [px EXCEPT !.ops = Append(@, op)]

\* Frame.__init__: the three cached representations start empty
NewFrame == [bytes |-> None, np |-> None, tensor |-> None]

InvalidateCache(f, keep) ==
    [bytes  |-> IF keep # "bytes" THEN None ELSE f.bytes,
     np     |-> IF keep # "np" THEN None ELSE f.np,
     tensor |-> IF keep # "tensor" THEN None ELSE f.tensor]

SetFrameBytes(f, b) == [InvalidateCache(f, "bytes") EXCEPT !.bytes = b]

SetFrameTensor(f, t) == [InvalidateCache(f, "tensor") EXCEPT !.tensor = t]

\* Frame.get_frame_tensor: the Frame after the call (the cache it filled)
FrameAfterGetTensor(f) ==
    IF f.tensor # None THEN f
    ELSE IF f.bytes # None THEN [f EXCEPT !.tensor = Apply(f.bytes, "frame_to_tensor")]
    ELSE IF f.np # None THEN [f EXCEPT !.tensor = Apply(f.np, "np_to_tensor")]
    ELSE f

GetFrameTensor(f) == FrameAfterGetTensor(f).tensor

\* Frame.get_frame_bytes(clear_cache=False)
FrameAfterGetBytes(f) ==
    IF f.bytes # None THEN f
    ELSE IF f.tensor # None THEN [f EXCEPT !.bytes = Apply(f.tensor, "tensor_to_frame")]
    ELSE IF f.np # None THEN [f EXCEPT !.bytes = Apply(f.np, "np_to_bytes")]
    ELSE f

GetFrameBytes(f) == FrameAfterGetBytes(f).bytes

\* Frame.get_frame_np(clear_cache=False)
FrameAfterGetNp(f) ==
    IF f.np # None THEN f
    ELSE IF f.tensor # None THEN [f EXCEPT !.np = Apply(f.tensor, "tensor_to_np")]
    ELSE IF f.bytes # None THEN [f EXCEPT !.np = Apply(f.bytes, "bytes_to_np")]
    ELSE f

IsFrame(x) == DOMAIN x = {"bytes", "np", "tensor"}

\* a bug: the bytes are always rebuilt from the tensor form
AsBytesReencoded(x) ==
    IF IsFrame(x)
    THEN Apply(FrameAfterGetTensor(x).tensor, "tensor_to_frame")
    ELSE x

\* `x.get_frame_bytes() if type(x) != bytes else x`
AsBytes(x) == IF IsFrame(x) THEN GetFrameBytes(x) ELSE x

Running == processExit = -1

(***************************************************************************)
(* Queues: queue.Queue(maxsize=25), blocking put and get.                  *)
(***************************************************************************)
\* a bug: a queue built without maxsize never blocks a put
CanPutUnbounded(q) == TRUE

CanPut(q) == Len(q) < QueueMaxSize

Put(q, x) == Append(q, x)


(***************************************************************************)
(* Initial states.                                                         *)
(***************************************************************************)
\* the mean luminances a decoded frame can have in the model
Means == {0, 40}

\* rve-backend.py rejects factor != 1 without a model and factor == 1 with one;
\* a factor in (0,1) with a model gives ceil = 1
Configs ==
    {c \in [interpolateModel : BOOLEAN, ceilInterpolateFactor : 1..MaxFactor,
            upscaleModel : BOOLEAN, override_upscale_scale : BOOLEAN,
            extraRestorationModels : 0..1] :
        (c.ceilInterpolateFactor > 1) => c.interpolateModel}

Videos == UNION {[1..n -> Means] : n \in 0..MaxFrames}

\* Render.__init__ up to the four Thread.start() calls
InitPipeline ==
    /\ readPos = 0
    /\ readQueue = <<>>
    /\ rpc = "read"
    /\ rframe = None
    /\ writeQueue = <<>>
    /\ pc = "check"
    /\ frame = None
    /\ gen = None
    /\ interpolated_frame = None
    /\ frames_rendered = 0
    /\ frame0 = None
    /\ image0mean = None
    /\ previewFrame = None
    /\ framesRendered = 1
    /\ isPaused = FALSE
    /\ stop = FALSE
    /\ tpc = "loop"
    /\ pauseByte = 0
    /\ pauseWrites = 0
    /\ wpc = "get"
    /\ wframe = None
    /\ encoderIn = <<>>
    /\ stdinClosed = FALSE
    /\ exit_code = 0
    /\ logDumped = FALSE
    /\ processExit = -1
    /\ decPuts = <<>>
    /\ encPuts = <<>>
    /\ h = [slept |-> FALSE, putsPaused |-> 0, getsPaused |-> 0,
            writeFailed |-> FALSE, inAtFailure |-> 0, ticksRead |-> TRUE,
            etaDivisor |-> -1]

\* a pipeline run; no object is exercised on its own
InitCommon ==
    /\ InitPipeline
    /\ frm = None /\ itp = None /\ scd = None /\ main = None

Init ==
    /\ cfg \in Configs
    /\ video \in Videos
    /\ accepts = -1
    /\ InitCommon

(***************************************************************************)
(* Reader thread: FFmpegRead.read_frames_into_queue.                       *)
(***************************************************************************)
\* read_frame() then Frame(...).set_frame_bytes(chunk); a short read gives None
ReaderRead ==
    /\ Running /\ rpc = "read"
    /\ IF readPos < Len(video)
       THEN /\ readPos' = readPos + 1
            /\ rframe' = SetFrameBytes(NewFrame, Chunk(readPos + 1))
            /\ rpc' = "put"
       ELSE /\ rpc' = "putNone"
            /\ UNCHANGED <<readPos, rframe>>
    /\ UNCHANGED <<unitVars, inputVars, readQueue, writeQueue, renderVars, transformVars,
                   telemetryVars, pauseVars, writerVars, processExit, decPuts, encPuts, h>>

\* self.readQueue.put(frame)
ReaderPut ==
    /\ Running /\ rpc = "put"
    /\ CanPut(readQueue)
    /\ readQueue' = Put(readQueue, rframe)
    /\ decPuts' = Append(decPuts, rframe)
    /\ rframe' = None
    /\ rpc' = "read"
    /\ UNCHANGED <<unitVars, inputVars, readPos, writeQueue, renderVars, transformVars,
                   telemetryVars, pauseVars, writerVars, processExit, encPuts, h>>

\* self.readQueue.put(None) after the loop
ReaderPutNone ==
    /\ Running /\ rpc = "putNone"
    /\ CanPut(readQueue)
    /\ readQueue' = Put(readQueue, None)
    /\ decPuts' = Append(decPuts, None)
    /\ rpc' = "done"
    /\ UNCHANGED <<unitVars, inputVars, readPos, rframe, writeQueue, renderVars, transformVars,
                   telemetryVars, pauseVars, writerVars, processExit, encPuts, h>>

Reader == ReaderRead \/ ReaderPut \/ ReaderPutNone

(***************************************************************************)
(* The transforms the render loop calls.                                   *)
(***************************************************************************)
\* Python truth value of a flag that is None, False or True
Truthy(x) == x = TRUE

\* a bug: the interpolator returns a list, which is empty (falsy) while it
\* only buffers the first frame
ListTruthy(g) == frame0 # None

\* `not interpolated_frames`: every interpolator's __call__ is a generator
\* function, and a generator object has neither __bool__ nor __len__
GeneratorTruthy(g) == TRUE

\* UpscalePytorch.__call__: a new Frame holding the model's output tensor
Upscale(f, op) == SetFrameTensor(NewFrame, Apply(GetFrameTensor(f), op))

\* resize_image_bytes(x.get_frame_bytes(), ...): bytes, no longer a Frame
Resize(f) == Apply(GetFrameBytes(f), "resize")

\* lines 356-365 and 372-384: optional upscale, then optional override resize
PostProcess(f) ==
    LET up == IF cfg.upscaleModel THEN Upscale(f, "upscale") ELSE f
    IN  IF cfg.override_upscale_scale THEN Resize(up) ELSE up

\* np.mean of the frame's array: the mean of the decoded frame it came from
MeanOf(f) == video[FrameAfterGetNp(f).np.b]

\* NPMeanSCDetect.sceneDetect: None for the first frame, then a boolean
SceneDetectResult(f) ==
    IF image0mean = None THEN None
    ELSE \/ image0mean.mean > MeanOf(f) + sceneDetectSensitivity * 10
         \/ image0mean.mean < MeanOf(f) - sceneDetectSensitivity * 10

\* F.pad(img1.get_frame_tensor(), self.padding)
Padded(f) == Apply(GetFrameTensor(f), "pad")

\* self.flownet(self.frame0, frame1, timestep, ...) at timestep n/ceil
Flownet(p0, p1, n) == [a |-> p0.b, b |-> p1.b, t |-> n, ops |-> <<"flownet">>]

\* a bug: the timesteps run from the last to the first
YieldedReversed(img1, transition, n) ==
    IF ~Truthy(transition)
    THEN SetFrameTensor(NewFrame,
             Flownet(frame0, Padded(img1), cfg.ceilInterpolateFactor - n))
    ELSE FrameAfterGetTensor(img1)

\* the n-th value the generator yields for img1 (n = 1 .. ceil-1)
Yielded(img1, transition, n) ==
    IF ~Truthy(transition)
    THEN SetFrameTensor(NewFrame, Flownet(frame0, Padded(img1), n))
    ELSE FrameAfterGetTensor(img1)

\* whether lines 356-365 / 372-384 call anything at all
HasPost == cfg.upscaleModel \/ cfg.override_upscale_scale

InterpPostPc == IF HasPost THEN "iPost" ELSE "iPreview"

FramePostPc == IF HasPost THEN "fPost" ELSE "fCount"

AfterRestorePc == IF cfg.interpolateModel THEN "detect" ELSE FramePostPc

AfterGetPc == IF cfg.extraRestorationModels > 0 THEN "restore" ELSE AfterRestorePc

(***************************************************************************)
(* Render thread: Render.render.                                           *)
(***************************************************************************)
\* a bug: the loop pulls the next frame without looking at the flag
RenderCheckPauseIgnored ==
    /\ Running /\ pc = "check"
    /\ pc' = "get"
    /\ UNCHANGED <<unitVars, inputVars, readerVars, readQueue, writeQueue, frame, gen,
                   interpolated_frame, frames_rendered, transformVars, telemetryVars,
                   pauseVars, writerVars, processExit, decPuts, encPuts, h>>

\* line 335: `if not self.informationHandler.get_is_paused()`
RenderCheckPause ==
    /\ Running /\ pc = "check"
    /\ pc' = IF ~Truthy(isPaused) THEN "get" ELSE "sleep"
    /\ h' = [h EXCEPT !.slept = @ \/ Truthy(isPaused)]
    /\ UNCHANGED <<unitVars, inputVars, readerVars, readQueue, writeQueue, frame, gen,
                   interpolated_frame, frames_rendered, transformVars, telemetryVars,
                   pauseVars, writerVars, processExit, decPuts, encPuts>>

\* a bug: a paused loop drops the interpolator's cached previous frame
RenderSleepUncache ==
    /\ Running /\ pc = "sleep"
    /\ pc' = "check"
    /\ frame0' = None
    /\ UNCHANGED <<unitVars, inputVars, readerVars, readQueue, writeQueue, frame, gen,
                   interpolated_frame, frames_rendered, image0mean, telemetryVars,
                   pauseVars, writerVars, processExit, decPuts, encPuts, h>>

\* a bug: after its sleep the loop pulls without looking at the flag again
RenderSleepThenGet ==
    /\ Running /\ pc = "sleep"
    /\ pc' = "get"
    /\ UNCHANGED <<unitVars, inputVars, readerVars, readQueue, writeQueue, frame, gen,
                   interpolated_frame, frames_rendered, transformVars, telemetryVars,
                   pauseVars, writerVars, processExit, decPuts, encPuts, h>>

\* line 393: sleep(1), then the loop re-checks
RenderSleep ==
    /\ Running /\ pc = "sleep"
    /\ pc' = "check"
    /\ UNCHANGED <<unitVars, inputVars, readerVars, readQueue, writeQueue, frame, gen,
                   interpolated_frame, frames_rendered, transformVars, telemetryVars,
                   pauseVars, writerVars, processExit, decPuts, encPuts, h>>

\* lines 336-340: frame = self.readBuffer.get(); the sentinel leaves the loop
RenderGet ==
    /\ Running /\ pc = "get"
    /\ readQueue # <<>>
    /\ frame' = Head(readQueue)
    /\ readQueue' = Tail(readQueue)
    /\ pc' = IF Head(readQueue) = None THEN "stopWriting" ELSE AfterGetPc
    /\ h' = [h EXCEPT !.getsPaused =
                IF Truthy(isPaused) /\ Head(readQueue) # None THEN @ + 1 ELSE @]
    /\ UNCHANGED <<unitVars, inputVars, readerVars, writeQueue, gen, interpolated_frame,
                   frames_rendered, transformVars, telemetryVars, pauseVars,
                   writerVars, processExit, decPuts, encPuts>>

\* a bug: the loop breaks on the sentinel without stopWriting()
RenderStopWritingSkipped ==
    /\ Running /\ pc = "stopWriting"
    /\ pc' = "putNone"
    /\ UNCHANGED <<unitVars, inputVars, readerVars, readQueue, writeQueue, frame, gen,
                   interpolated_frame, frames_rendered, transformVars, telemetryVars,
                   pauseVars, writerVars, processExit, decPuts, encPuts, h>>

\* line 339: self.informationHandler.stopWriting(); break
RenderStopWriting ==
    /\ Running /\ pc = "stopWriting"
    /\ stop' = TRUE
    /\ pc' = "putNone"
    /\ UNCHANGED <<unitVars, inputVars, readerVars, readQueue, writeQueue, frame, gen,
                   interpolated_frame, frames_rendered, transformVars, previewFrame,
                   framesRendered, isPaused, tpc, pauseVars, writerVars, processExit,
                   decPuts, encPuts, h>>

\* a bug: after the sentinel is put the loop goes round again
RenderPutNoneContinues ==
    /\ Running /\ pc = "putNone"
    /\ CanPut(writeQueue)
    /\ writeQueue' = Put(writeQueue, None)
    /\ encPuts' = Append(encPuts, None)
    /\ pc' = "check"
    /\ UNCHANGED <<unitVars, inputVars, readerVars, readQueue, frame, gen, interpolated_frame,
                   frames_rendered, transformVars, telemetryVars, pauseVars,
                   writerVars, processExit, decPuts, h>>

\* line 394: self.writeBuffer.writeQueue.put(None)
RenderPutNone ==
    /\ Running /\ pc = "putNone"
    /\ CanPut(writeQueue)
    /\ writeQueue' = Put(writeQueue, None)
    /\ encPuts' = Append(encPuts, None)
    /\ pc' = "done"
    /\ UNCHANGED <<unitVars, inputVars, readerVars, readQueue, frame, gen, interpolated_frame,
                   frames_rendered, transformVars, telemetryVars, pauseVars,
                   writerVars, processExit, decPuts, h>>

\* lines 342-343: frame = extraRestoration(frame), for each restoration model
RenderRestore ==
    /\ Running /\ pc = "restore"
    /\ frame' = Upscale(frame, "restore")
    /\ pc' = AfterRestorePc
    /\ UNCHANGED <<unitVars, inputVars, readerVars, readQueue, writeQueue, gen,
                   interpolated_frame, frames_rendered, transformVars, telemetryVars,
                   pauseVars, writerVars, processExit, decPuts, encPuts, h>>

\* lines 346-352: detect, create the generator, `if not interpolated_frames: return`
RenderDetect ==
    /\ Running /\ pc = "detect"
    /\ LET g == [n |-> 0, transition |-> SceneDetectResult(frame)]
       IN  /\ gen' = g
           /\ pc' = IF ~GeneratorTruthy(g) THEN "returned" ELSE "genNext"
    /\ image0mean' = [mean |-> MeanOf(frame)]
    /\ frame' = FrameAfterGetNp(frame)
    /\ UNCHANGED <<unitVars, inputVars, readerVars, readQueue, writeQueue, interpolated_frame,
                   frames_rendered, frame0, telemetryVars, pauseVars, writerVars,
                   processExit, decPuts, encPuts, h>>

\* line 354: the for loop resumes InterpolateRifeTorch.__call__ (lines 419-502)
RenderGenNext ==
    /\ Running /\ pc = "genNext"
    /\ frame' = FrameAfterGetTensor(frame)
    /\ IF frame0 = None
       THEN \* first frame: keep it and return without yielding
            /\ frame0' = Padded(frame)
            /\ gen' = None
            /\ pc' = FramePostPc
            /\ UNCHANGED interpolated_frame
       ELSE IF gen.n < cfg.ceilInterpolateFactor - 1
       THEN /\ interpolated_frame' = Yielded(frame, gen.transition, gen.n + 1)
            /\ gen' = [gen EXCEPT !.n = @ + 1]
            /\ pc' = InterpPostPc
            /\ UNCHANGED frame0
       ELSE \* copy_tensor(self.frame0, frame1): the generator is exhausted
            /\ frame0' = Padded(frame)
            /\ gen' = None
            /\ pc' = FramePostPc
            /\ UNCHANGED interpolated_frame
    /\ UNCHANGED <<unitVars, inputVars, readerVars, readQueue, writeQueue, frames_rendered,
                   image0mean, telemetryVars, pauseVars, writerVars, processExit,
                   decPuts, encPuts, h>>

\* lines 356-365: upscale and override-resize the in-between frame
RenderInterpPost ==
    /\ Running /\ pc = "iPost"
    /\ interpolated_frame' = PostProcess(interpolated_frame)
    /\ pc' = "iPreview"
    /\ UNCHANGED <<unitVars, inputVars, readerVars, readQueue, writeQueue, frame, gen,
                   frames_rendered, transformVars, telemetryVars, pauseVars,
                   writerVars, processExit, decPuts, encPuts, h>>

\* line 366: setPreviewFrame(interpolated_frame bytes)
RenderInterpPreview ==
    /\ Running /\ pc = "iPreview"
    /\ previewFrame' = AsBytes(interpolated_frame)
    /\ pc' = "iCount"
    /\ UNCHANGED <<unitVars, inputVars, readerVars, readQueue, writeQueue, frame, gen,
                   interpolated_frame, frames_rendered, transformVars, framesRendered,
                   isPaused, stop, tpc, pauseVars, writerVars, processExit, decPuts,
                   encPuts, h>>

\* line 367: setFramesRendered(frames_rendered)
RenderInterpCount ==
    /\ Running /\ pc = "iCount"
    /\ framesRendered' = frames_rendered
    /\ pc' = "iPut"
    /\ UNCHANGED <<unitVars, inputVars, readerVars, readQueue, writeQueue, frame, gen,
                   interpolated_frame, frames_rendered, transformVars, previewFrame,
                   isPaused, stop, tpc, pauseVars, writerVars, processExit, decPuts,
                   encPuts, h>>

\* line 368: self.writeBuffer.writeQueue.put(interpolated_frame bytes)
RenderInterpPut ==
    /\ Running /\ pc = "iPut"
    /\ CanPut(writeQueue)
    /\ writeQueue' = Put(writeQueue, AsBytes(interpolated_frame))
    /\ encPuts' = Append(encPuts, AsBytes(interpolated_frame))
    /\ pc' = "genNext"
    /\ h' = [h EXCEPT !.putsPaused = IF Truthy(isPaused) THEN @ + 1 ELSE @]
    /\ UNCHANGED <<unitVars, inputVars, readerVars, readQueue, frame, gen, interpolated_frame,
                   frames_rendered, transformVars, telemetryVars, pauseVars,
                   writerVars, processExit, decPuts>>

\* lines 372-384: upscale and override-resize the source frame
RenderFramePost ==
    /\ Running /\ pc = "fPost"
    /\ frame' = PostProcess(frame)
    /\ pc' = "fCount"
    /\ UNCHANGED <<unitVars, inputVars, readerVars, readQueue, writeQueue, gen,
                   interpolated_frame, frames_rendered, transformVars, telemetryVars,
                   pauseVars, writerVars, processExit, decPuts, encPuts, h>>

\* line 387: setFramesRendered(frames_rendered)
RenderFrameCount ==
    /\ Running /\ pc = "fCount"
    /\ framesRendered' = frames_rendered
    /\ pc' = "fPreview"
    /\ UNCHANGED <<unitVars, inputVars, readerVars, readQueue, writeQueue, frame, gen,
                   interpolated_frame, frames_rendered, transformVars, previewFrame,
                   isPaused, stop, tpc, pauseVars, writerVars, processExit, decPuts,
                   encPuts, h>>

\* line 388: setPreviewFrame(frame bytes)
RenderFramePreview ==
    /\ Running /\ pc = "fPreview"
    /\ previewFrame' = AsBytes(frame)
    /\ pc' = "fPut"
    /\ UNCHANGED <<unitVars, inputVars, readerVars, readQueue, writeQueue, frame, gen,
                   interpolated_frame, frames_rendered, transformVars, framesRendered,
                   isPaused, stop, tpc, pauseVars, writerVars, processExit, decPuts,
                   encPuts, h>>

\* a bug: the counter advances by one per source frame
RenderFramePutCountsOne ==
    /\ Running /\ pc = "fPut"
    /\ CanPut(writeQueue)
    /\ writeQueue' = Put(writeQueue, AsBytes(frame))
    /\ encPuts' = Append(encPuts, AsBytes(frame))
    /\ frames_rendered' = frames_rendered + 1
    /\ pc' = "check"
    /\ h' = [h EXCEPT !.putsPaused = IF Truthy(isPaused) THEN @ + 1 ELSE @]
    /\ UNCHANGED <<unitVars, inputVars, readerVars, readQueue, frame, gen, interpolated_frame,
                   transformVars, telemetryVars, pauseVars, writerVars, processExit,
                   decPuts>>

\* lines 390-391: writeQueue.put(frame bytes); frames_rendered += ceil
RenderFramePut ==
    /\ Running /\ pc = "fPut"
    /\ CanPut(writeQueue)
    /\ writeQueue' = Put(writeQueue, AsBytes(frame))
    /\ encPuts' = Append(encPuts, AsBytes(frame))
    /\ frames_rendered' = frames_rendered + cfg.ceilInterpolateFactor
    /\ pc' = "check"
    /\ h' = [h EXCEPT !.putsPaused = IF Truthy(isPaused) THEN @ + 1 ELSE @]
    /\ UNCHANGED <<unitVars, inputVars, readerVars, readQueue, frame, gen, interpolated_frame,
                   transformVars, telemetryVars, pauseVars, writerVars, processExit,
                   decPuts>>

\* a restoration, scene-cut, interpolation or upscale call raises: the
\* exception is caught nowhere, so Thread.run ends and the thread is gone
TransformPcs == {"restore", "detect", "genNext", "iPost", "fPost"}

RenderRaise ==
    /\ Running /\ pc \in TransformPcs
    /\ pc' = "raised"
    /\ UNCHANGED <<unitVars, inputVars, readerVars, readQueue, writeQueue, frame, gen,
                   interpolated_frame, frames_rendered, transformVars, telemetryVars,
                   pauseVars, writerVars, processExit, decPuts, encPuts, h>>

(***************************************************************************)
(* Telemetry thread: InformationWriteOut.writeOutInformation, and the      *)
(* external controller that writes the pause byte.                         *)
(***************************************************************************)
\* a bug: once the pause was seen, the telemetry loop keeps reporting it
PauseManagerLatched == pauseByte = 1 \/ Truthy(isPaused)

\* PauseManager.pause_manager: self.pausedSharedMemory.buf[0] == 1
PauseManagerRead == pauseByte = 1

\* one pass of `while not self.stop:` (lines 147-178), then sleep(0.5)
TelemetryTick ==
    /\ Running /\ tpc = "loop"
    /\ IF stop
       THEN /\ tpc' = "done"
            /\ UNCHANGED <<isPaused, h>>
       ELSE /\ tpc' = "loop"
            /\ IF previewFrame # None /\ framesRendered > 0
               THEN /\ isPaused' = PauseManagerRead
                    /\ h' = IF PauseManagerRead THEN h
                            ELSE [h EXCEPT !.putsPaused = 0, !.getsPaused = 0]
               ELSE /\ h' = [h EXCEPT !.ticksRead = FALSE]
                    /\ UNCHANGED isPaused
    /\ UNCHANGED <<unitVars, inputVars, readerVars, readQueue, writeQueue, renderVars,
                   transformVars, previewFrame, framesRendered, stop, pauseVars,
                   writerVars, processExit, decPuts, encPuts>>

\* the controller process stores a new value in the one-byte segment
SetPauseByte ==
    /\ Running /\ pauseWrites < MaxPauseWrites
    /\ pauseByte' = 1 - pauseByte
    /\ pauseWrites' = pauseWrites + 1
    /\ UNCHANGED <<unitVars, inputVars, readerVars, readQueue, writeQueue, renderVars,
                   transformVars, telemetryVars, writerVars, processExit, decPuts,
                   encPuts, h>>

(***************************************************************************)
(* Writer thread: FFmpegWrite.write_out_frames and onErroredExit.          *)
(***************************************************************************)
\* the encoder still reads its stdin, so write() returns
EncoderAccepts == accepts = -1 \/ Len(encoderIn) < accepts

\* line 462-464: frame = self.writeQueue.get(); None leaves the loop
WriterGet ==
    /\ Running /\ wpc = "get"
    /\ writeQueue # <<>>
    /\ wframe' = Head(writeQueue)
    /\ writeQueue' = Tail(writeQueue)
    /\ wpc' = IF Head(writeQueue) = None THEN "close" ELSE "write"
    /\ UNCHANGED <<unitVars, inputVars, readerVars, readQueue, renderVars, transformVars,
                   telemetryVars, pauseVars, encoderIn, stdinClosed, exit_code,
                   logDumped, processExit, decPuts, encPuts, h>>

\* a bug: the handler logs the exception and the loop takes the next buffer
OnWriteErrorSkip == "get"

\* the step the writer takes after a write has raised (lines 475-477)
OnWriteError == "onErroredExit"

\* line 466: self.writeProcess.stdin.buffer.write(frame)
WriterWrite ==
    /\ Running /\ wpc = "write"
    /\ EncoderAccepts
    /\ encoderIn' = Append(encoderIn, wframe)
    /\ wframe' = None
    /\ wpc' = "get"
    /\ UNCHANGED <<unitVars, inputVars, readerVars, readQueue, writeQueue, renderVars,
                   transformVars, telemetryVars, pauseVars, stdinClosed, exit_code,
                   logDumped, processExit, decPuts, encPuts, h>>

\* line 466 raises (broken pipe): except Exception -> self.onErroredExit()
WriterWriteFail ==
    /\ Running /\ wpc = "write"
    /\ wpc' = OnWriteError
    /\ h' = [h EXCEPT !.writeFailed = TRUE, !.inAtFailure = Len(encoderIn)]
    /\ UNCHANGED <<unitVars, inputVars, readerVars, readQueue, writeQueue, renderVars,
                   transformVars, telemetryVars, pauseVars, wframe, encoderIn,
                   stdinClosed, exit_code, logDumped, processExit, decPuts, encPuts>>

\* lines 468-481 with returncode 0: the thread ends
WriterClose ==
    /\ Running /\ wpc = "close"
    /\ stdinClosed' = TRUE
    /\ exit_code' = 0
    /\ wpc' = "done"
    /\ UNCHANGED <<unitVars, inputVars, readerVars, readQueue, writeQueue, renderVars,
                   transformVars, telemetryVars, pauseVars, wframe, encoderIn,
                   logDumped, processExit, decPuts, encPuts, h>>

\* lines 468-481 with a non-zero returncode: `if exit_code != 0: onErroredExit()`
WriterCloseFail ==
    /\ Running /\ wpc = "close"
    /\ stdinClosed' = TRUE
    /\ exit_code' = 1
    /\ wpc' = "onErroredExit"
    /\ h' = [h EXCEPT !.writeFailed = TRUE, !.inAtFailure = Len(encoderIn)]
    /\ UNCHANGED <<unitVars, inputVars, readerVars, readQueue, writeQueue, renderVars,
                   transformVars, telemetryVars, pauseVars, wframe, encoderIn,
                   logDumped, processExit, decPuts, encPuts>>

\* onErroredExit lines 486-507: log the full ffmpeg log, then sleep(1)
WriterOnErroredExit ==
    /\ Running /\ wpc = "onErroredExit"
    /\ logDumped' = TRUE
    /\ wpc' = "os_exit"
    /\ UNCHANGED <<unitVars, inputVars, readerVars, readQueue, writeQueue, renderVars,
                   transformVars, telemetryVars, pauseVars, wframe, encoderIn,
                   stdinClosed, exit_code, processExit, decPuts, encPuts, h>>

\* onErroredExit line 508: os._exit(1) ends every thread at once
WriterOsExit ==
    /\ Running /\ wpc = "os_exit"
    /\ processExit' = 1
    /\ UNCHANGED <<unitVars, inputVars, readerVars, readQueue, writeQueue, renderVars,
                   transformVars, telemetryVars, pauseVars, writerVars, decPuts,
                   encPuts, h>>

WriterClean == WriterGet \/ WriterWrite \/ WriterClose

WriterFault == WriterWriteFail \/ WriterCloseFail \/ WriterOnErroredExit \/ WriterOsExit

\* the steps of the loop that every configuration takes
RenderCore ==
    \/ RenderCheckPause \/ RenderGet \/ RenderStopWriting \/ RenderPutNone
    \/ RenderDetect \/ RenderGenNext
    \/ RenderInterpPreview \/ RenderInterpCount \/ RenderInterpPut
    \/ RenderFrameCount \/ RenderFramePreview \/ RenderFramePut

\* upscaling and the override resize of an output frame
RenderPost == RenderInterpPost \/ RenderFramePost

RenderLoop == RenderCore \/ RenderRestore \/ RenderPost

(***************************************************************************)
(* Specifications.                                                         *)
(***************************************************************************)
\* fault-free runs of every configuration; the controller never pauses
Next == Reader \/ RenderLoop \/ TelemetryTick \/ WriterClean

Spec == Init /\ [][Next]_vars

\* the configurations without restoration models and override scale
PlainConfigs ==
    {c \in Configs : c.extraRestorationModels = 0 /\ ~c.override_upscale_scale}

\* runs in which a transform may raise and the encoder may fail
InitFault ==
    /\ cfg \in PlainConfigs
    /\ video \in Videos
    /\ accepts = -1
    /\ InitCommon

NextFault ==
    \/ Reader \/ RenderCore \/ RenderPost \/ TelemetryTick \/ WriterClean
    \/ RenderRaise \/ WriterFault

SpecFault == InitFault /\ [][NextFault]_vars

\* fault-free runs in which the controller writes the pause byte
\* no upscaling, and interpolation by a factor of at most two
PauseConfigs ==
    {c \in PlainConfigs : ~c.upscaleModel /\ c.ceilInterpolateFactor <= 2}

InitPause ==
    /\ cfg \in PauseConfigs
    /\ video \in Videos
    /\ accepts = -1
    /\ InitCommon

NextPause ==
    \/ Reader \/ RenderCore \/ TelemetryTick \/ WriterClean
    \/ RenderSleep \/ SetPauseByte

SpecPause == InitPause /\ [][NextPause]_vars

\* a long video whose encoder stops reading its stdin after `accepts` writes;
\* the video is longer than everything the threads and both queues can hold
StallFrames == 2 * QueueMaxSize + MaxAccept + 2

PassthroughConfig ==
    [interpolateModel |-> FALSE, ceilInterpolateFactor |-> 1, upscaleModel |-> FALSE,
     override_upscale_scale |-> FALSE, extraRestorationModels |-> 0]

InitStall ==
    /\ cfg = PassthroughConfig
    /\ video = [k \in 1..StallFrames |-> 0]
    /\ accepts \in 0..MaxAccept
    /\ InitCommon

NextStall ==
    \/ ReaderRead \/ ReaderPut
    \/ RenderCheckPause \/ RenderGet
    \/ RenderFrameCount \/ RenderFramePreview \/ RenderFramePut
    \/ TelemetryTick
    \/ WriterGet \/ WriterWrite

SpecStall == InitStall /\ [][NextStall]_vars

\* clean runs under a fair scheduler: every thread that can take a step
\* eventually takes one; the controller is under no obligation
InitLive ==
    /\ cfg \in PauseConfigs
    /\ video \in UNION {[1..n -> Means] : n \in 0..LiveFrames}
    /\ accepts = -1
    /\ InitCommon

Fairness ==
    /\ WF_vars(Reader)
    /\ WF_vars(RenderCore \/ RenderSleep)
    /\ WF_vars(TelemetryTick)
    /\ WF_vars(WriterClean)

SpecLive == InitLive /\ [][NextPause]_vars /\ Fairness

(***************************************************************************)
(* What the properties speak about.                                        *)
(***************************************************************************)
\* the buffers put on FrameSink's queue so far, without the sentinel
RealPuts == SelectSeq(encPuts, LAMBDA x : x # None)

IsPrefix(s, t) == Len(s) <= Len(t) /\ \A i \in 1..Len(s) : s[i] = t[i]

\* what a buffer was computed from: <<previous frame, frame, timestep>>
Slot(px) == <<px.a, px.b, px.t>>

Slots(s) == [i \in 1..Len(s) |-> Slot(s[i])]

\* frame k differs from frame k-1 by more than the sensitivity
CutAt(k) ==
    /\ k >= 2
    /\ \/ video[k - 1] > video[k] + sceneDetectSensitivity * 10
       \/ video[k - 1] < video[k] - sceneDetectSensitivity * 10

\* presentation order of the buffers of source frame k
SlotsOfFrame(k) ==
    IF ~cfg.interpolateModel \/ k = 1 THEN << <<0, k, 0>> >>
    ELSE IF CutAt(k) THEN [n \in 1..cfg.ceilInterpolateFactor |-> <<0, k, 0>>]
    ELSE [n \in 1..cfg.ceilInterpolateFactor |->
             IF n < cfg.ceilInterpolateFactor THEN <<k - 1, k, n>> ELSE <<0, k, 0>>]

RECURSIVE PresentationOrder(_)
PresentationOrder(n) ==
    IF n = 0 THEN <<>> ELSE PresentationOrder(n - 1) \o SlotsOfFrame(n)

\* Render.__init__ lines 163-166, for a container that counts its frames right
totalOutputFrames == Len(video) * cfg.ceilInterpolateFactor

Passthrough ==
    /\ ~cfg.interpolateModel /\ ~cfg.upscaleModel
    /\ ~cfg.override_upscale_scale /\ cfg.extraRestorationModels = 0

C3_PassthroughIdentical ==
    Passthrough =>
        /\ IsPrefix(RealPuts, [k \in 1..Len(video) |-> Chunk(k)])
        /\ pc = "done" => RealPuts = [k \in 1..Len(video) |-> Chunk(k)]

C3_Witness == Passthrough /\ Len(video) = 3 /\ pc = "done" /\ Len(RealPuts) = 3

(***************************************************************************)
(* C4: a complete run over N frames with factor F and no cut puts exactly  *)
(* N*ceil(F) buffers on FrameSink's queue, the total computed at startup.  *)
(***************************************************************************)
NoCuts == \A k \in 1..Len(video) : ~CutAt(k)

C4_BufferCountIsTotal ==
    (cfg.interpolateModel /\ NoCuts /\ pc = "done") =>
        Len(RealPuts) = totalOutputFrames

(***************************************************************************)
(* C2: each queue gets exactly one sentinel, the decode queue's from the   *)
(* reader and the encode queue's from the render loop, after all real      *)
(* items of that queue and with nothing after it, whichever way the        *)
(* render loop ends.                                                       *)
(***************************************************************************)
\* a sentinel is the last thing put, so there is at most one
SentinelLast(puts) == \A i \in 1..Len(puts) : puts[i] = None => i = Len(puts)

HasSentinel(puts) == puts # <<>> /\ puts[Len(puts)] = None

\* the render loop has left `while True`, by break or by return
RenderEnded == pc \in {"done", "returned"}

C9_WriterFailureIsFatal ==
    /\ h.writeFailed =>
          /\ wpc \in {"onErroredExit", "os_exit"}
          /\ Len(encoderIn) = h.inAtFailure
          /\ wpc = "os_exit" => logDumped
          /\ Running => ENABLED WriterFault
    /\ processExit \in {-1, 1}
    /\ processExit = 1 => h.writeFailed /\ logDumped
    /\ (exit_code # 0 \/ logDumped) => h.writeFailed

C9_Witness ==
    /\ processExit = 1 /\ h.writeFailed /\ logDumped
    /\ exit_code = 0 /\ Len(encoderIn) = 1 /\ wframe # None
    /\ writeQueue # <<>>

(***************************************************************************)
(* C10: an exception raised by a transform ends the whole pipeline at      *)
(* once: no thread is left blocked forever or looping forever.             *)
(***************************************************************************)
\* some thread other than the telemetry loop can still take a step
OthersCanStep == ENABLED (Reader \/ WriterClean \/ WriterFault)

C10_TransformFailureEndsPipeline ==
    pc = "raised" => (~Running \/ OthersCanStep)

(***************************************************************************)
(* C6: once the pause byte is 1 in the middle of a run, no new buffer is   *)
(* put on FrameSink's queue for as long as the byte stays 1.               *)
(***************************************************************************)
C6_NoPutWhileByteSet ==
    [][(pauseByte = 1 /\ pauseByte' = 1) => RealPuts' = RealPuts]_vars

(***************************************************************************)
(* C6, as the code has it: the render loop looks at the flag the telemetry *)
(* loop last sampled, and only before it pulls a frame.  While that flag   *)
(* is set the render loop pulls at most one more frame and puts at most    *)
(* the ceil(F) buffers of the frame in progress; a loop that has seen the  *)
(* flag only sleeps and looks again.                                       *)
(***************************************************************************)
C6_PausedAfterFrameInProgress ==
    /\ [](/\ h.getsPaused <= 1
          /\ h.putsPaused <= cfg.ceilInterpolateFactor
          /\ pc = "sleep" => Truthy(isPaused) \/ h.putsPaused = 0)
    /\ [][(pc = "sleep" /\ Truthy(isPaused) /\ Truthy(isPaused'))
              => (encPuts' = encPuts /\ readQueue' \in {readQueue, Append(readQueue, rframe), Append(readQueue, None)}
                  /\ pc' \in {"sleep", "check"})]_vars

C6_Witness ==
    /\ pc = "sleep" /\ Truthy(isPaused) /\ pauseByte = 1
    /\ cfg.ceilInterpolateFactor = 2
    /\ h.putsPaused = 2 /\ h.getsPaused = 1
    /\ Len(RealPuts) = 5 /\ Len(video) = 3

(***************************************************************************)
(* C7: pausing and resuming loses nothing and repeats nothing: whatever    *)
(* the pause schedule, a run that completes has put the same sequence of   *)
(* buffers on FrameSink's queue as the run that is never paused.           *)
(***************************************************************************)
\* the content of the buffer in a slot, for a run without upscaling
BufferOfSlot(sl) ==
    IF sl[3] = 0 THEN Chunk(sl[2])
    ELSE [a |-> sl[1], b |-> sl[2], t |-> sl[3], ops |-> <<"flownet", "tensor_to_frame">>]

NeverPausedOutput ==
    [i \in 1..Len(PresentationOrder(Len(video))) |->
        BufferOfSlot(PresentationOrder(Len(video))[i])]

C7_PauseLosesNothing ==
    /\ IsPrefix(RealPuts, NeverPausedOutput)
    /\ pc = "done" => encPuts = NeverPausedOutput \o <<None>>

C7_Witness ==
    /\ pc = "done" /\ h.slept /\ pauseWrites = 2
    /\ cfg.interpolateModel /\ cfg.ceilInterpolateFactor = 2
    /\ Len(video) = 3 /\ Len(RealPuts) = 5

(***************************************************************************)
(* C5: both queues hold at most 25 items at every moment.  With a writer   *)
(* that no longer drains, the render thread blocks on its put, the decode  *)
(* queue fills to 25 and the reader blocks on its put; no frame is         *)
(* dropped or overwritten.                                                 *)
(***************************************************************************)
BytesOf(q) == [i \in 1..Len(q) |-> AsBytes(q[i])]

\* every frame read so far, from the encoder's stdin back to the reader's hand
InFlight ==
    encoderIn
    \o (IF wpc = "write" THEN <<wframe>> ELSE <<>>)
    \o writeQueue
    \o (IF pc \in {"fCount", "fPreview", "fPut"} THEN <<AsBytes(frame)>> ELSE <<>>)
    \o BytesOf(readQueue)
    \o (IF rpc = "put" THEN <<AsBytes(rframe)>> ELSE <<>>)

C5_QueuesBoundedNothingLost ==
    /\ Len(readQueue) <= 25
    /\ Len(writeQueue) <= 25
    /\ InFlight = [k \in 1..readPos |-> Chunk(k)]
    /\ (pc = "fPut" /\ Len(writeQueue) = 25) => ~ENABLED RenderFramePut
    /\ (rpc = "put" /\ Len(readQueue) = 25) => ~ENABLED ReaderPut

C5_Witness ==
    /\ accepts = 0 /\ wpc = "write" /\ ~ENABLED WriterWrite
    /\ Len(writeQueue) = 25 /\ pc = "fPut"
    /\ Len(readQueue) = 25 /\ rpc = "put"
    /\ readPos = StallFrames
    /\ ~ENABLED (ReaderPut \/ RenderFramePut \/ WriterWrite \/ WriterGet)

(***************************************************************************)
(* C8: a clean run terminates.  The decoder delivers finitely many frames  *)
(* and then a short read, the encoder takes every write and exits with     *)
(* code 0; if the pause byte does not stay 1 forever then, under fair      *)
(* scheduling, the sentinel goes through the decode queue and then the     *)
(* encode queue and the reader, render, writer and telemetry threads all   *)
(* terminate.                                                              *)
(***************************************************************************)
AllDone ==
    /\ rpc = "done" /\ pc = "done" /\ wpc = "done" /\ tpc = "done"
    /\ HasSentinel(decPuts) /\ HasSentinel(encPuts)
    /\ readQueue = <<>> /\ writeQueue = <<>>
    /\ stdinClosed /\ exit_code = 0 /\ processExit = -1
    /\ encoderIn = RealPuts

C8_CleanRunTerminates == (<>[](pauseByte # 1)) => <>[]AllDone

C8_Witness ==
    /\ AllDone /\ h.slept /\ pauseWrites = 2
    /\ Len(video) = 2 /\ cfg.ceilInterpolateFactor = 2 /\ Len(encoderIn) = 3

(***************************************************************************)
(* Frame on its own (utils/Frame.py).  Python objects live on a heap, a    *)
(* sequence of objects; a reference is an index into it and 0 is None.     *)
(* An object is a bytes string (data: its bytes), a numpy array of shape   *)
(* (h, w, 3) or a torch tensor of shape (1, 3, h, w) (data: its samples,   *)
(* a float sample being data[i] / den), or a str.                          *)
(***************************************************************************)
BytesObj(data) ==
    [kind |-> "bytes", dtype |-> "", w |-> 0, h |-> 0, den |-> 1, data |-> data,
     ro |-> TRUE]

NdArray(dtype, wd, ht, den, data, ro) ==
    [kind |-> "ndarray", dtype |-> dtype, w |-> wd, h |-> ht, den |-> den,
     data |-> data, ro |-> ro]

Tensor(wd, ht, den, data) ==
    [kind |-> "tensor", dtype |-> "f32", w |-> wd, h |-> ht, den |-> den,
     data |-> data, ro |-> FALSE]

StrObj ==
    [kind |-> "str", dtype |-> "", w |-> 0, h |-> 0, den |-> 1, data |-> <<>>,
     ro |-> TRUE]

\* the largest sample: 255 for uint8, 65535 for uint16
FullScale(hdr_mode) == IF hdr_mode THEN 65535 ELSE 255

IntDtype(hdr_mode) == IF hdr_mode THEN "u16" ELSE "u8"

ItemSize(dtype) == IF dtype = "u8" THEN 1 ELSE IF dtype = "u16" THEN 2 ELSE 4

\* the bytes of one array item: uint8 as is, uint16 little-endian; a float32
\* item is four bytes, written here as a one-to-one code of its value
ItemBytes(dtype, v, den) ==
    IF dtype = "u8" THEN <<v>>
    ELSE IF dtype = "u16" THEN <<v % 256, v \div 256>>
    ELSE <<v % 256, (v \div 256) % 256, den % 256, (den \div 256) % 256>>

RECURSIVE Flatten(_)
Flatten(ss) == IF ss = <<>> THEN <<>> ELSE Head(ss) \o Flatten(Tail(ss))

\* ndarray.tobytes(), and the buffer that bytes and arrays expose
RawBytes(o) ==
    IF o.kind = "bytes" THEN o.data
    ELSE Flatten([i \in 1..Len(o.data) |-> ItemBytes(o.dtype, o.data[i], o.den)])

\* a bug: 16-bit samples read high byte first
FromBufferBigEndian(raw, dtype) ==
    IF dtype = "u8" THEN raw
    ELSE [i \in 1..(Len(raw) \div 2) |-> 256 * raw[2 * i - 1] + raw[2 * i]]

\* np.frombuffer(raw, dtype): the items of a buffer
FromBuffer(raw, dtype) ==
    IF dtype = "u8" THEN raw
    ELSE [i \in 1..(Len(raw) \div 2) |-> raw[2 * i - 1] + 256 * raw[2 * i]]

\* frombuffer needs whole items and reshape needs exactly h*w*3 of them
Reshapes(raw, dtype, wd, ht) ==
    /\ Len(raw) % ItemSize(dtype) = 0
    /\ Len(raw) \div ItemSize(dtype) = ht * wd * 3

\* Frame._bytes_to_np
BytesToNp(o, hdr_mode, wd, ht) ==
    NdArray(IntDtype(hdr_mode), wd, ht, 1, FromBuffer(RawBytes(o), IntDtype(hdr_mode)),
            o.kind = "bytes")

\* Frame._np_to_bytes: arr.tobytes()
NpToBytes(arr) == BytesObj(RawBytes(arr))

\* TorchUtils.frame_to_tensor: frombuffer, div by full scale, clamp, reshape
FrameToTensor(o, tu) ==
    Tensor(tu.width, tu.height, FullScale(tu.hdr_mode),
           FromBuffer(RawBytes(o), IntDtype(tu.hdr_mode)))

\* TorchUtils.np_to_tensor: a cast to the float dtype, no scaling
NpToTensor(arr) == Tensor(arr.w, arr.h, arr.den, arr.data)

\* TorchUtils.tensor_to_np: the float samples as they are
TensorToNp(t) == NdArray("f32", t.w, t.h, t.den, t.data, FALSE)

Min(a, b) == IF a < b THEN a ELSE b

\* clamp(0, 1).mul(full scale).round() of the sample v / den
RoundScaled(v, den, full) ==
    IF den = full THEN Min(v, den)
    ELSE (2 * full * Min(v, den) + den) \div (2 * den)

\* TorchUtils.tensor_to_frame: a numpy array of integers, not a bytes string
TensorToFrame(t, tu) ==
    NdArray(IntDtype(tu.hdr_mode), t.w, t.h, 1,
            [i \in 1..Len(t.data) |-> RoundScaled(t.data[i], t.den, FullScale(tu.hdr_mode))],
            FALSE)

\* the samples of an image of one colour after resampling to w x h
Resampled(data, wd, ht) == [i \in 1..(wd * ht * 3) |-> data[((i - 1) % 3) + 1]]

\* the cv2 kernel resize_image_np picks (Util.py lines 121-126)
Cv2Kernel(wd, ht, target_width, target_height) ==
    IF target_width < wd \/ target_height < ht THEN "INTER_AREA" ELSE "INTER_LANCZOS4"

\* Util.resize_image_np; the same size gives the array back
ResizeImageNp(arr, target_width, target_height) ==
    IF target_width = arr.w /\ target_height = arr.h THEN arr
    ELSE NdArray(arr.dtype, target_width, target_height, arr.den,
                 Resampled(arr.data, target_width, target_height), FALSE)

\* TorchUtils.resize_tensor: F.interpolate(mode="bilinear")
ResizeTensor(t, new_width, new_height) ==
    Tensor(new_width, new_height, t.den, Resampled(t.data, new_width, new_height))

\* Frame.__init__: metadata, and no representation yet
FrameNew(backend, width, height, hdr_mode) ==
    [backend |-> backend, width |-> width, height |-> height, hdr_mode |-> hdr_mode,
     bytes |-> 0, np |-> 0, tensor |-> 0]

\* what a Frame method leaves: the heap, the Frame, the value returned (a
\* reference) and the exception raised ("" when none)
Returns(H, F, r) == [heap |-> H, f |-> F, ret |-> r, err |-> ""]

Raises(H, F, e) == [heap |-> H, f |-> F, ret |-> 0, err |-> e]

\* a bug: _invalidate_cache clears nothing
FrameKeepCaches(F, keep) == F

\* Frame._invalidate_cache
FrameInvalidateCache(F, keep) ==
    [F EXCEPT !.tensor = IF keep = "tensor" THEN @ ELSE 0,
              !.np = IF keep = "np" THEN @ ELSE 0,
              !.bytes = IF keep = "bytes" THEN @ ELSE 0]

\* Frame.set_frame_bytes
set_frame_bytes(H, F, a) ==
    IF H[a].kind # "bytes" THEN Raises(H, F, "TypeError")
    ELSE Returns(H, [FrameInvalidateCache(F, "bytes") EXCEPT !.bytes = a], 0)

\* Frame.set_frame_np: the caller's array itself is stored
set_frame_np(H, F, a) ==
    IF H[a].kind # "ndarray" THEN Raises(H, F, "TypeError")
    ELSE Returns(H, [FrameInvalidateCache(F, "np") EXCEPT !.np = a], 0)

\* Frame.set_frame_tensor: the type is looked at only when the module global
\* _torch is set; frame.clone() and _torch_utils.sync_all_streams() follow
set_frame_tensor(H, F, a, tu) ==
    IF tu.loaded /\ H[a].kind # "tensor" THEN Raises(H, F, "TypeError")
    ELSE IF H[a].kind # "tensor"
         THEN Raises(H, FrameInvalidateCache(F, "tensor"), "AttributeError")
    ELSE IF ~tu.loaded
         THEN Raises(Append(H, H[a]),
                     [FrameInvalidateCache(F, "tensor") EXCEPT !.tensor = Len(H) + 1],
                     "AttributeError")
    ELSE Returns(Append(H, H[a]),
                 [FrameInvalidateCache(F, "tensor") EXCEPT !.tensor = Len(H) + 1], 0)

\* lines 91-99: the tensor is made from the bytes, else from the array
FillTensor(H, F, tu) ==
    IF F.tensor # 0 \/ (F.bytes = 0 /\ F.np = 0) THEN Returns(H, F, 0)
    ELSE IF ~tu.loaded THEN Raises(H, F, "AttributeError")
    ELSE IF F.bytes # 0
         THEN IF ~Reshapes(RawBytes(H[F.bytes]), IntDtype(tu.hdr_mode), tu.width, tu.height)
              THEN Raises(H, F, "RuntimeError")
              ELSE Returns(Append(H, FrameToTensor(H[F.bytes], tu)),
                           [F EXCEPT !.tensor = Len(H) + 1], 0)
    ELSE Returns(Append(H, NpToTensor(H[F.np])), [F EXCEPT !.tensor = Len(H) + 1], 0)

\* Frame.get_frame_tensor: returns self._tensor.clone()
get_frame_tensor(H, F, clear_cache, tu) ==
    LET r == FillTensor(H, F, tu)
        F1 == IF clear_cache THEN FrameInvalidateCache(r.f, "tensor") ELSE r.f
    IN  IF r.err # "" THEN r
        ELSE IF F1.tensor = 0 THEN Raises(r.heap, F1, "AttributeError")
        ELSE Returns(Append(r.heap, r.heap[F1.tensor]), F1, Len(r.heap) + 1)

\* lines 106-110: the bytes are made from the tensor, else from the array
FillBytes(H, F, tu) ==
    IF F.bytes # 0 \/ (F.tensor = 0 /\ F.np = 0) THEN Returns(H, F, 0)
    ELSE IF F.tensor # 0
         THEN IF ~tu.loaded THEN Raises(H, F, "AttributeError")
              ELSE Returns(Append(H, TensorToFrame(H[F.tensor], tu)),
                           [F EXCEPT !.bytes = Len(H) + 1], 0)
    ELSE Returns(Append(H, NpToBytes(H[F.np])), [F EXCEPT !.bytes = Len(H) + 1], 0)

\* Frame.get_frame_bytes: returns self._bytes itself
get_frame_bytes(H, F, clear_cache, tu) ==
    LET r == FillBytes(H, F, tu)
        F1 == IF clear_cache THEN FrameInvalidateCache(r.f, "bytes") ELSE r.f
    IN  IF r.err # "" THEN r ELSE Returns(r.heap, F1, F1.bytes)

\* lines 121-126: the array is made from the tensor, else from the bytes
FillNp(H, F, tu) ==
    IF F.np # 0 \/ (F.tensor = 0 /\ F.bytes = 0) THEN Returns(H, F, 0)
    ELSE IF F.tensor # 0
         THEN IF ~tu.loaded THEN Raises(H, F, "AttributeError")
              ELSE Returns(Append(H, TensorToNp(H[F.tensor])),
                           [F EXCEPT !.np = Len(H) + 1], 0)
    ELSE IF ~Reshapes(RawBytes(H[F.bytes]), IntDtype(F.hdr_mode), F.width, F.height)
         THEN Raises(H, F, "ValueError")
    ELSE Returns(Append(H, BytesToNp(H[F.bytes], F.hdr_mode, F.width, F.height)),
                 [F EXCEPT !.np = Len(H) + 1], 0)

\* Frame.get_frame_np: returns self._np itself
get_frame_np(H, F, clear_cache, tu) ==
    LET r == FillNp(H, F, tu)
        F1 == IF clear_cache THEN FrameInvalidateCache(r.f, "np") ELSE r.f
    IN  IF r.err # "" THEN r ELSE Returns(r.heap, F1, F1.np)

\* Frame.resize_frame, the tensor first, then the array, then the bytes
resize_frame(H, F, new_width, new_height, tu) ==
    LET r1 == IF F.tensor = 0 THEN Returns(H, F, 0)
              ELSE IF ~tu.loaded THEN Raises(H, F, "AttributeError")
              ELSE Returns(Append(H, ResizeTensor(H[F.tensor], new_width, new_height)),
                           [F EXCEPT !.tensor = Len(H) + 1], 0)
        H1 == r1.heap
        F1 == r1.f
        r2 == IF F1.np = 0 \/ ResizeImageNp(H1[F1.np], new_width, new_height) = H1[F1.np]
              THEN Returns(H1, F1, 0)
              ELSE Returns(Append(H1, ResizeImageNp(H1[F1.np], new_width, new_height)),
                           [F1 EXCEPT !.np = Len(H1) + 1], 0)
        H2 == r2.heap
        F2 == r2.f
        r3 == IF F2.bytes = 0 THEN Returns(H2, F2, 0)
              ELSE IF ~Reshapes(RawBytes(H2[F2.bytes]), IntDtype(F.hdr_mode), F.width, F.height)
              THEN Raises(H2, F2, "ValueError")
              ELSE Returns(
                  Append(H2, NpToBytes(ResizeImageNp(
                      BytesToNp(H2[F2.bytes], F.hdr_mode, F.width, F.height),
                      new_width, new_height))),
                  [F2 EXCEPT !.bytes = Len(H2) + 1], 0)
    IN  IF r1.err # "" THEN r1
        ELSE IF r3.err # "" THEN r3
        ELSE Returns(r3.heap, [r3.f EXCEPT !.width = new_width, !.height = new_height], 0)

\* the kernel resize_frame uses for each representation ("" when none is used)
ResizeKernels(H, F, new_width, new_height) ==
    [tensor |-> IF F.tensor # 0 THEN "bilinear" ELSE "",
     np |-> IF F.np # 0 /\ (H[F.np].w # new_width \/ H[F.np].h # new_height)
            THEN Cv2Kernel(H[F.np].w, H[F.np].h, new_width, new_height) ELSE "",
     bytes |-> IF F.bytes # 0 /\ (F.width # new_width \/ F.height # new_height)
               THEN Cv2Kernel(F.width, F.height, new_width, new_height) ELSE ""]

\* Frame.clone: a new Frame, then one setter call per populated representation
clone(H, F, tu) ==
    LET G0 == FrameNew(F.backend, F.width, F.height, F.hdr_mode)
        r1 == IF F.tensor = 0 THEN Returns(H, G0, 0)
              ELSE set_frame_tensor(Append(H, H[F.tensor]), G0, Len(H) + 1, tu)
        r2 == IF F.np = 0 THEN r1
              ELSE set_frame_np(Append(r1.heap, [r1.heap[F.np] EXCEPT !.ro = FALSE]),
                                r1.f, Len(r1.heap) + 1)
        r3 == IF F.bytes = 0 THEN r2 ELSE set_frame_bytes(r2.heap, r2.f, F.bytes)
    IN  IF r1.err # "" THEN r1
        ELSE IF r2.err # "" THEN r2
        ELSE r3

\* ---- the callers of a Frame: one action per method call ----

\* the side lengths a Frame is built with and resized to
Sides == {1, 2}

\* the sample values of the images the callers hand in, one triple per pixel
Colours(hdr_mode) ==
    {<<0, 1, FullScale(hdr_mode)>>, IF hdr_mode THEN <<256, 0, 1>> ELSE <<1, 0, 0>>}

\* a height x width x 3 array of the Frame's integer type
ImageNp(F, c) ==
    NdArray(IntDtype(F.hdr_mode), F.width, F.height, 1, Resampled(c, F.width, F.height), FALSE)

\* what a caller passes to set_frame_bytes: a full buffer, a short one, a str
BytesArgs(F) ==
    {NpToBytes(ImageNp(F, c)) : c \in Colours(F.hdr_mode)} \cup {BytesObj(<<7>>), StrObj}

\* what a caller passes to set_frame_np
NpArgs(F) == {ImageNp(F, c) : c \in Colours(F.hdr_mode)} \cup {StrObj}

\* what a caller passes to set_frame_tensor: samples in [0, 1]
TensorArgs(F) ==
    {Tensor(F.width, F.height, FullScale(F.hdr_mode), Resampled(c, F.width, F.height)) :
        c \in Colours(F.hdr_mode)} \cup {StrObj}

\* no Frame (the clone before clone() is called)
NoFrame == FrameNew("", 0, 0, FALSE)

\* the modules' globals after the pipeline built its first Frame
TorchGlobals(backend, width, height, hdr_mode) ==
    [loaded |-> backend \in {"pytorch", "tensorrt"},
     width |-> width, height |-> height, hdr_mode |-> hdr_mode]

NoSet == [op |-> "", val |-> StrObj, at |-> 0, whole |-> TRUE]

NoKernels == [tensor |-> "", np |-> "", bytes |-> ""]

InitFrame ==
    /\ InitPipeline
    /\ cfg = PassthroughConfig
    /\ video = <<>>
    /\ accepts = -1
    /\ itp = None
    /\ scd = None
    /\ main = None
    /\ \E backend \in {"pytorch", "ncnn"}, hdr_mode \in BOOLEAN :
          frm = [heap |-> <<>>, f |-> FrameNew(backend, 1, 1, hdr_mode), g |-> NoFrame,
                 tu |-> TorchGlobals(backend, 1, 1, hdr_mode),
                 arg |-> 0, ret |-> 0, err |-> "", log |-> <<>>,
                 set |-> NoSet, kernels |-> NoKernels,
                 before |-> [heap |-> <<>>, f |-> FrameNew(backend, 1, 1, hdr_mode)]]

FrameLive == frm # None /\ frm.err = "" /\ Len(frm.log) < MaxOps

\* the state after a method call `op` that left r
AfterCall(op, r, a) ==
    [frm EXCEPT !.heap = r.heap, !.f = r.f, !.ret = r.ret, !.err = r.err, !.arg = a,
                !.log = Append(@, op), !.kernels = NoKernels,
                !.before = [heap |-> frm.heap, f |-> frm.f]]

\* the object is an image of the Frame's size
WholeImage(o, F) ==
    IF o.kind = "bytes" THEN Reshapes(o.data, IntDtype(F.hdr_mode), F.width, F.height)
    ELSE o.kind \in {"ndarray", "tensor"} /\ o.w = F.width /\ o.h = F.height

\* the state after a setter call: a successful one is remembered
AfterSet(op, r, a) ==
    [AfterCall(op, r, a) EXCEPT
        !.set = IF r.err = ""
                THEN [op |-> op, val |-> r.heap[a], at |-> Len(frm.log) + 1,
                      whole |-> WholeImage(r.heap[a], frm.f)]
                ELSE @]

FrameSetBytes ==
    /\ FrameLive
    /\ \E o \in BytesArgs(frm.f) :
          frm' = AfterSet("set_frame_bytes",
                          set_frame_bytes(Append(frm.heap, o), frm.f, Len(frm.heap) + 1),
                          Len(frm.heap) + 1)
    /\ UNCHANGED <<pipelineVars, main, itp, scd>>

FrameSetNp ==
    /\ FrameLive
    /\ \E o \in NpArgs(frm.f) :
          frm' = AfterSet("set_frame_np",
                          set_frame_np(Append(frm.heap, o), frm.f, Len(frm.heap) + 1),
                          Len(frm.heap) + 1)
    /\ UNCHANGED <<pipelineVars, main, itp, scd>>

FrameSetTensor ==
    /\ FrameLive
    /\ \E o \in TensorArgs(frm.f) :
          frm' = AfterSet("set_frame_tensor",
                          set_frame_tensor(Append(frm.heap, o), frm.f, Len(frm.heap) + 1, frm.tu),
                          Len(frm.heap) + 1)
    /\ UNCHANGED <<pipelineVars, main, itp, scd>>

FrameGetBytes ==
    /\ FrameLive
    /\ \E clear_cache \in BOOLEAN :
          frm' = AfterCall("get_frame_bytes",
                           get_frame_bytes(frm.heap, frm.f, clear_cache, frm.tu), 0)
    /\ UNCHANGED <<pipelineVars, main, itp, scd>>

FrameGetNp ==
    /\ FrameLive
    /\ \E clear_cache \in BOOLEAN :
          frm' = AfterCall("get_frame_np",
                           get_frame_np(frm.heap, frm.f, clear_cache, frm.tu), 0)
    /\ UNCHANGED <<pipelineVars, main, itp, scd>>

FrameGetTensor ==
    /\ FrameLive
    /\ \E clear_cache \in BOOLEAN :
          frm' = AfterCall("get_frame_tensor",
                           get_frame_tensor(frm.heap, frm.f, clear_cache, frm.tu), 0)
    /\ UNCHANGED <<pipelineVars, main, itp, scd>>

FrameResize ==
    /\ FrameLive
    /\ \E new_width \in Sides, new_height \in Sides :
          frm' = [AfterCall("resize_frame",
                            resize_frame(frm.heap, frm.f, new_width, new_height, frm.tu), 0)
                  EXCEPT !.kernels = ResizeKernels(frm.heap, frm.f, new_width, new_height)]
    /\ UNCHANGED <<pipelineVars, main, itp, scd>>

FrameClone ==
    /\ FrameLive
    /\ LET r == clone(frm.heap, frm.f, frm.tu)
       IN  frm' = [frm EXCEPT !.heap = r.heap, !.g = r.f, !.err = r.err, !.ret = 0, !.arg = 0,
                              !.log = Append(@, "clone"), !.kernels = NoKernels,
                              !.before = [heap |-> frm.heap, f |-> frm.f]]
    /\ UNCHANGED <<pipelineVars, main, itp, scd>>

\* an object the holder of a reference can write into
Writable(H, r) ==
    /\ r # 0
    /\ H[r].kind \in {"ndarray", "tensor"}
    /\ ~H[r].ro
    /\ \E i \in 1..Len(H[r].data) : H[r].data[i] # 0

\* arr[...] = 0, t.zero_()
Zeroed(H, r) == [H EXCEPT ![r].data = [i \in 1..Len(@) |-> 0]]

\* the caller writes into the object it passed in or was handed back
CallerMutates ==
    /\ FrameLive
    /\ \E r \in {frm.arg, frm.ret} :
          /\ Writable(frm.heap, r)
          /\ frm' = [frm EXCEPT !.heap = Zeroed(frm.heap, r), !.log = Append(@, "mutate"),
                                !.kernels = NoKernels,
                                !.before = [heap |-> frm.heap, f |-> frm.f]]
    /\ UNCHANGED <<pipelineVars, main, itp, scd>>

\* the holder of the clone writes into the array the clone's get_frame_np() returns
CloneMutates ==
    /\ FrameLive
    /\ Writable(frm.heap, frm.g.np)
    /\ frm' = [frm EXCEPT !.heap = Zeroed(frm.heap, frm.g.np), !.log = Append(@, "mutate_clone"),
                          !.kernels = NoKernels,
                          !.before = [heap |-> frm.heap, f |-> frm.f]]
    /\ UNCHANGED <<pipelineVars, main, itp, scd>>

NextFrame ==
    \/ FrameSetBytes
    \/ FrameSetNp
    \/ FrameSetTensor
    \/ FrameGetBytes
    \/ FrameGetNp
    \/ FrameGetTensor
    \/ FrameResize
    \/ FrameClone
    \/ CallerMutates
    \/ CloneMutates

SpecFrame == InitFrame /\ [][NextFrame]_vars

\* ---- what the callers of a Frame may rely on ----

\* the calls made since the last successful setter are all among ops
OnlySince(ops) ==
    \A i \in (frm.set.at + 1)..Len(frm.log) : frm.log[i] \in ops

\* the last call made, "" before the first
LastOp == IF Len(frm.log) = 0 THEN "" ELSE frm.log[Len(frm.log)]

\* the buffer last set is a whole image of the Frame
SetWholeBuffer ==
    /\ frm.set.op = "set_frame_bytes"
    /\ Reshapes(frm.set.val.data, IntDtype(frm.f.hdr_mode), frm.f.width, frm.f.height)

\* C11: after set_frame_bytes(B) with B a whole image, get_frame_bytes()
\* returns B, also when get_frame_np() was called in between; the array
\* get_frame_np() returns has shape (height, width, 3) and the integer type
\* of the Frame's range (uint8, uint16 in extended range).
C11_BytesRoundTrip ==
    (SetWholeBuffer /\ OnlySince({"get_frame_bytes", "get_frame_np"})) =>
        /\ frm.err = ""
        /\ LastOp = "get_frame_bytes" =>
              /\ frm.ret # 0
              /\ frm.heap[frm.ret].kind = "bytes"
              /\ frm.heap[frm.ret].data = frm.set.val.data
        /\ LastOp = "get_frame_np" =>
              /\ frm.ret # 0
              /\ frm.heap[frm.ret].kind = "ndarray"
              /\ frm.heap[frm.ret].dtype = IntDtype(frm.f.hdr_mode)
              /\ frm.heap[frm.ret].w = frm.f.width
              /\ frm.heap[frm.ret].h = frm.f.height
              /\ Len(frm.heap[frm.ret].data) = frm.f.height * frm.f.width * 3

\* an extended-range buffer came back from the array it had been turned into
C11_Witness ==
    /\ frm.log = <<"set_frame_bytes", "get_frame_np", "get_frame_bytes">>
    /\ SetWholeBuffer
    /\ frm.f.hdr_mode
    /\ frm.err = ""
    /\ frm.ret # frm.arg
    /\ frm.heap[frm.ret].data = frm.set.val.data
    /\ \E i \in 1..Len(frm.set.val.data) : frm.set.val.data[i] # 0

Setters == {"set_frame_bytes", "set_frame_np", "set_frame_tensor"}

Getters == {"get_frame_bytes", "get_frame_np", "get_frame_tensor"}

\* the representation a setter or a getter is about
RepOf(op) ==
    IF op \in {"set_frame_bytes", "get_frame_bytes"} THEN "bytes"
    ELSE IF op \in {"set_frame_np", "get_frame_np"} THEN "np"
    ELSE "tensor"

\* the references a Frame holds, by representation
Ref(F, rep) == IF rep = "bytes" THEN F.bytes ELSE IF rep = "np" THEN F.np ELSE F.tensor

\* the value of representation `to` made from the value val of representation `from`
Converted(from, to, val, F, tu) ==
    IF from = to THEN val
    ELSE IF from = "bytes"
         THEN IF to = "np" THEN BytesToNp(val, F.hdr_mode, F.width, F.height)
              ELSE FrameToTensor(val, tu)
    ELSE IF from = "np"
         THEN IF to = "bytes" THEN NpToBytes(val) ELSE NpToTensor(val)
    ELSE IF to = "bytes" THEN TensorToFrame(val, tu) ELSE TensorToNp(val)

\* C12: right after a setter succeeded the Frame holds the representation set
\* and neither of the other two; the getter called next returns a value made
\* from the data just set, never one cached before the setter.
C12_SetterDropsCaches ==
    /\ (LastOp \in Setters /\ frm.err = "") =>
          /\ frm.set.at = Len(frm.log)
          /\ Ref(frm.f, RepOf(LastOp)) # 0
          /\ \A rep \in {"bytes", "np", "tensor"} \ {RepOf(LastOp)} : Ref(frm.f, rep) = 0
    /\ (/\ frm.set.op # ""
        /\ Len(frm.log) = frm.set.at + 1
        /\ LastOp \in Getters
        /\ frm.err = "") =>
          /\ frm.ret # 0
          /\ frm.heap[frm.ret] =
                Converted(RepOf(frm.set.op), RepOf(LastOp), frm.set.val, frm.f, frm.tu)

\* get_frame_bytes() had cached the bytes of one array; after set_frame_np(A)
\* with another array it returns the bytes of A
C12_Witness ==
    /\ frm.log = <<"set_frame_np", "get_frame_bytes", "set_frame_np", "get_frame_bytes">>
    /\ frm.err = ""
    /\ frm.before.f.bytes = 0
    /\ frm.heap[frm.ret].data = RawBytes(frm.set.val)
    /\ \E r \in 1..Len(frm.heap) :
          /\ frm.heap[r].kind = "bytes"
          /\ frm.heap[r].data # frm.heap[frm.ret].data

\* the samples a stored object holds, read as the Frame reads them
Samples(o, hdr_mode) ==
    IF o.kind = "bytes"
    THEN IF Len(o.data) % ItemSize(IntDtype(hdr_mode)) = 0
         THEN FromBuffer(o.data, IntDtype(hdr_mode)) ELSE <<>>
    ELSE o.data

\* the value of a sample that stands for full intensity
WhiteOf(o, hdr_mode) ==
    IF o.kind \in {"bytes", "str"} \/ o.dtype # "f32" THEN FullScale(hdr_mode) ELSE o.den

\* v / white is the same intensity as u / (k * white)
SameIntensity(v, u, k) == u % k = 0 /\ u \div k = v

\* two stored objects show the same picture
SameImage(a, b, hdr_mode) ==
    LET wa == WhiteOf(a, hdr_mode)
        wb == WhiteOf(b, hdr_mode)
        sa == Samples(a, hdr_mode)
        sb == Samples(b, hdr_mode)
    IN  /\ Len(sa) = Len(sb)
        /\ \A i \in 1..Len(sa) :
              IF wa <= wb THEN SameIntensity(sa[i], sb[i], wb \div wa)
              ELSE SameIntensity(sb[i], sa[i], wa \div wb)

\* the object has the Frame's width and height
SameSize(o, F, hdr_mode) ==
    IF o.kind = "bytes" THEN Len(Samples(o, hdr_mode)) = F.height * F.width * 3
    ELSE o.w = F.width /\ o.h = F.height

Populated(F) == {rep \in {"bytes", "np", "tensor"} : Ref(F, rep) # 0}

\* C13: whatever was called on a Frame (setters, getters with or without
\* clear_cache, resize_frame), the representations it holds show the same
\* picture and have the Frame's width and height.
C13_CachesAgree ==
    (/\ frm.err = ""
     /\ frm.set.whole
     /\ \A i \in 1..Len(frm.log) : frm.log[i] \in Setters \cup Getters \cup {"resize_frame"}) =>
        /\ \A rep \in Populated(frm.f) :
              SameSize(frm.heap[Ref(frm.f, rep)], frm.f, frm.f.hdr_mode)
        /\ \A r1 \in Populated(frm.f), r2 \in Populated(frm.f) :
              SameImage(frm.heap[Ref(frm.f, r1)], frm.heap[Ref(frm.f, r2)], frm.f.hdr_mode)

\* the array set and the bytes made by way of the tensor are both held and
\* differ, although no caller wrote into either
C13_SaturatedBytes ==
    /\ frm.log = <<"set_frame_np", "get_frame_tensor", "get_frame_bytes">>
    /\ frm.err = ""
    /\ frm.f.np # 0
    /\ frm.f.bytes # 0
    /\ frm.heap[frm.f.np] = frm.set.val
    /\ RawBytes(frm.heap[frm.f.bytes]) # RawBytes(frm.heap[frm.f.np])

\* the kind of object a setter takes
KindOf(op) ==
    IF op = "set_frame_bytes" THEN "bytes"
    ELSE IF op = "set_frame_np" THEN "ndarray"
    ELSE "tensor"

\* C14: a setter called with an object of another kind than its own raises
\* TypeError and leaves the Frame as it was, on every backend.
C14_WrongKindTypeError ==
    (/\ LastOp \in Setters
     /\ frm.heap[frm.arg].kind # KindOf(LastOp)) =>
        /\ frm.err = "TypeError"
        /\ frm.f = frm.before.f

\* set_frame_tensor was handed a str on a backend that never loaded torch:
\* the caches it held are gone and the exception is not a TypeError
C14_AttributeErrorWithoutTorch ==
    /\ LastOp = "set_frame_tensor"
    /\ frm.heap[frm.arg].kind = "str"
    /\ ~frm.tu.loaded
    /\ frm.err = "AttributeError"
    /\ Populated(frm.before.f) # {}
    /\ Populated(frm.f) = {}

\* C15: set_frame_bytes called with a buffer whose length is not
\* width x height x bytes per pixel raises at once, and the Frame does not
\* hold that buffer.
C15_WrongLengthRejected ==
    (/\ LastOp = "set_frame_bytes"
     /\ frm.heap[frm.arg].kind = "bytes"
     /\ ~WholeImage(frm.heap[frm.arg], frm.before.f)) =>
        /\ frm.err # ""
        /\ frm.f.bytes # frm.arg

\* set_frame_bytes returned normally and the Frame holds a one-byte buffer
C15_ShortBufferHeld ==
    /\ LastOp = "set_frame_bytes"
    /\ frm.err = ""
    /\ frm.f.bytes = frm.arg
    /\ Len(frm.heap[frm.arg].data) = 1
    /\ frm.f.width * frm.f.height * 3 * ItemSize(IntDtype(frm.f.hdr_mode)) > 1

\* two objects are equal as values (== on bytes, array_equal, torch.equal)
EqualValue(a, b) ==
    /\ a.kind = b.kind
    /\ a.dtype = b.dtype
    /\ a.w = b.w
    /\ a.h = b.h
    /\ a.den = b.den
    /\ a.data = b.data

\* what the getters of a Frame have to go on: the values it holds
Held(H, F) ==
    [rep \in {"bytes", "np", "tensor"} |->
        IF Ref(F, rep) = 0 THEN StrObj ELSE H[Ref(F, rep)]]

\* C16: clone() returns a Frame with the metadata of the original and, for
\* every representation the original holds, an equal one of its own (not the
\* same object where the object can be written into); writing into an array
\* of the clone leaves what the original holds as it was.
C16_CloneIsDeepCopy ==
    /\ LastOp = "clone" =>
          /\ frm.err = ""
          /\ frm.g.backend = frm.f.backend
          /\ frm.g.width = frm.f.width
          /\ frm.g.height = frm.f.height
          /\ frm.g.hdr_mode = frm.f.hdr_mode
          /\ \A rep \in Populated(frm.f) :
                /\ Ref(frm.g, rep) # 0
                /\ EqualValue(frm.heap[Ref(frm.g, rep)], frm.heap[Ref(frm.f, rep)])
                /\ frm.heap[Ref(frm.f, rep)].kind # "bytes" =>
                      Ref(frm.g, rep) # Ref(frm.f, rep)
    /\ LastOp = "mutate_clone" => Held(frm.heap, frm.f) = Held(frm.before.heap, frm.before.f)

\* the original holds an array and the bytes made from it; its clone holds
\* the bytes only
C16_CloneLostArray ==
    /\ frm.log = <<"set_frame_np", "get_frame_bytes", "clone">>
    /\ frm.err = ""
    /\ Populated(frm.f) = {"np", "bytes"}
    /\ Populated(frm.g) = {"bytes"}

\* C17: a caller writing into an object it passed to a setter, or into an
\* object a getter returned, leaves what the Frame holds as it was.
C17_NoAliasing ==
    LastOp = "mutate" => Held(frm.heap, frm.f) = Held(frm.before.heap, frm.before.f)

\* the caller wrote into the array it had passed to set_frame_np, and the
\* array the Frame holds is no longer the one that was set
C17_CallerWriteSeen ==
    /\ frm.log = <<"set_frame_np", "mutate">>
    /\ frm.f.np = frm.arg
    /\ frm.heap[frm.f.np] # frm.set.val
    /\ frm.before.heap[frm.f.np] = frm.set.val

\* the resampling the description of resize names: area averaging when a
\* dimension shrinks, the high-quality kernel otherwise
NamedKernel(F0, F1) ==
    IF F1.width < F0.width \/ F1.height < F0.height THEN "INTER_AREA" ELSE "INTER_LANCZOS4"

\* C18: resize_frame(new_w, new_h) leaves width = new_w and height = new_h,
\* the populated representations populated and of the new size, the
\* unpopulated ones unpopulated; a representation whose size changes is
\* resampled by area averaging when a dimension shrinks and by the
\* high-quality kernel otherwise.
C18_ResizeEffect ==
    (LastOp = "resize_frame" /\ frm.err = "") =>
        /\ Populated(frm.f) = Populated(frm.before.f)
        /\ \A rep \in Populated(frm.f) :
              SameSize(frm.heap[Ref(frm.f, rep)], frm.f, frm.f.hdr_mode)
        /\ (frm.f.width # frm.before.f.width \/ frm.f.height # frm.before.f.height) =>
              \A rep \in Populated(frm.f) :
                  frm.kernels[rep] = NamedKernel(frm.before.f, frm.f)

\* a 2 x 2 tensor was shrunk to 1 x 1 by bilinear interpolation
C18_TensorShrunkBilinear ==
    /\ LastOp = "resize_frame"
    /\ frm.err = ""
    /\ frm.before.f.tensor # 0
    /\ frm.before.f.width = 2
    /\ frm.before.f.height = 2
    /\ frm.f.width = 1
    /\ frm.f.height = 1
    /\ frm.heap[frm.f.tensor].w = 1
    /\ frm.kernels.tensor = "bilinear"

\* ---- the interpolators on their own ----
\* Frames are numbered in the order they are handed in; an interpolator holds
\* the number of the frame it keeps (0 for None).  The factor is given as
\* twice its value, so that 5 stands for --interpolate_factor 2.5.

\* the interpolators setupInterpolate can build
InterpolateBackends == {"rife", "gmfss", "gimm", "ifrnet", "ncnn"}

\* math.ceil(interpolateFactor)
CeilFactor(twice) == (twice + 1) \div 2

\* the incoming Frame itself, yielded on a transition
SameFrame(n) == [kind |-> "frame", a |-> n, b |-> n, k |-> 0]

\* a frame made by the network from frames a and b at timestep k / ceil
Interpolated(a, b, k) == [kind |-> "interp", a |-> a, b |-> b, k |-> k]

InitInterp ==
    /\ InitPipeline
    /\ cfg = PassthroughConfig
    /\ video = <<>>
    /\ accepts = -1
    /\ frm = None
    /\ scd = None
    /\ main = None
    /\ \E backend \in InterpolateBackends, twice \in 3..MaxTwiceFactor :
          itp = [backend |-> backend, twiceFactor |-> twice,
                 ceilInterpolateFactor |-> CeilFactor(twice),
                 frame0 |-> 0, image0 |-> 0, calls |-> 0, img1 |-> 0, prev |-> 0,
                 transition |-> FALSE, out |-> <<>>, err |-> ""]

InterpLive(backend) ==
    /\ itp # None
    /\ itp.backend = backend
    /\ itp.err = ""
    /\ itp.calls < MaxCalls

\* the state after a call that was handed frame calls + 1 and yielded out
AfterInterp(transition, out, kept, cached, raised) ==
    [itp EXCEPT !.calls = @ + 1, !.img1 = itp.calls + 1, !.prev = itp.img1,
                !.transition = transition, !.out = out, !.frame0 = kept,
                !.image0 = cached, !.err = raised]

\* the loop shared by the RIFE, GMFSS and GIMM classes: img1 itself on a
\* transition, else the network's frame for (frame0, frame1) at (n + 1) / ceil
TorchYields(transition) ==
    [n \in 1..(itp.ceilInterpolateFactor - 1) |->
        IF transition THEN SameFrame(itp.calls + 1)
        ELSE Interpolated(itp.frame0, itp.calls + 1, n)]

\* InterpolateRifeTorch.__call__
InterpolateRifeTorchCall ==
    /\ InterpLive("rife")
    /\ \E transition \in BOOLEAN :
          itp' = IF itp.frame0 = 0
                 THEN AfterInterp(transition, <<>>, itp.calls + 1, 0, "")
                 ELSE AfterInterp(transition, TorchYields(transition), itp.calls + 1, 0, "")
    /\ UNCHANGED <<pipelineVars, main, frm, scd>>

\* InterpolateGMFSSTorch.__call__
InterpolateGMFSSTorchCall ==
    /\ InterpLive("gmfss")
    /\ \E transition \in BOOLEAN :
          itp' = IF itp.frame0 = 0
                 THEN AfterInterp(transition, <<>>, itp.calls + 1, 0, "")
                 ELSE AfterInterp(transition, TorchYields(transition), itp.calls + 1, 0, "")
    /\ UNCHANGED <<pipelineVars, main, frm, scd>>

\* InterpolateGIMMTorch.__call__: the network's output may hold NaNs, and the
\* call then raises before it yields that frame
InterpolateGIMMTorchCall ==
    /\ InterpLive("gimm")
    /\ \E transition \in BOOLEAN, nans \in 0..(itp.ceilInterpolateFactor - 1) :
          itp' = IF itp.frame0 = 0
                 THEN AfterInterp(transition, <<>>, itp.calls + 1, 0, "")
                 ELSE IF transition \/ nans = 0
                 THEN AfterInterp(transition, TorchYields(transition), itp.calls + 1, 0, "")
                 ELSE AfterInterp(transition, SubSeq(TorchYields(transition), 1, nans - 1),
                                  itp.frame0, 0, "ValueError")
    /\ UNCHANGED <<pipelineVars, main, frm, scd>>

\* InterpolateIFRNetTorch.__call__: one run of the network over all timesteps
InterpolateIFRNetTorchCall ==
    /\ InterpLive("ifrnet")
    /\ \E transition \in BOOLEAN :
          itp' = IF itp.frame0 = 0
                 THEN AfterInterp(transition, <<>>, itp.calls + 1, 0, "")
                 ELSE AfterInterp(transition,
                        IF transition
                        THEN [n \in 1..(itp.ceilInterpolateFactor - 1) |-> SameFrame(itp.calls + 1)]
                        ELSE [n \in 1..(itp.ceilInterpolateFactor - 1) |->
                                 Interpolated(itp.frame0, itp.calls + 1, n)],
                        itp.calls + 1, 0, "")
    /\ UNCHANGED <<pipelineVars, main, frm, scd>>

\* Rife.process_bytes line 122: timestep == self.max_timestep, for the
\* timestep n / ceil and max_timestep = (factor - 1) / factor
IsMaxTimestep(n, twice) == n * twice = (twice - 2) * CeilFactor(twice)

\* the frame Rife.process_bytes pairs the incoming one with at timestep
\* n / ceil: its own image0, replaced by the incoming frame once a call was
\* made at max_timestep
NcnnImage0(n, first) ==
    IF \E j \in 1..(n - 1) : IsMaxTimestep(j, itp.twiceFactor) THEN itp.calls + 1 ELSE first

\* InterpolateRIFENCNN.__call__
InterpolateRIFENCNNCall ==
    /\ InterpLive("ncnn")
    /\ \E transition \in BOOLEAN :
          LET first == IF itp.image0 = 0 THEN itp.frame0 ELSE itp.image0
          IN  itp' = IF itp.frame0 = 0
                     THEN AfterInterp(transition, <<>>, itp.calls + 1, 0, "")
                     ELSE IF transition
                     THEN AfterInterp(transition,
                            [n \in 1..(itp.ceilInterpolateFactor - 1) |-> SameFrame(itp.calls + 1)],
                            itp.calls + 1, itp.calls + 1, "")
                     ELSE AfterInterp(transition,
                            [n \in 1..(itp.ceilInterpolateFactor - 1) |->
                                Interpolated(NcnnImage0(n, first), itp.calls + 1, n)],
                            itp.calls + 1,
                            NcnnImage0(itp.ceilInterpolateFactor, first), "")
    /\ UNCHANGED <<pipelineVars, main, frm, scd>>

NextInterp ==
    \/ InterpolateRifeTorchCall
    \/ InterpolateGMFSSTorchCall
    \/ InterpolateGIMMTorchCall
    \/ InterpolateIFRNetTorchCall
    \/ InterpolateRIFENCNNCall

SpecInterp == InitInterp /\ [][NextInterp]_vars

\* C19: a call made after the warm-up call that returns normally yields
\* exactly ceil(factor) - 1 frames: on a transition each is the incoming
\* frame; otherwise the k-th is the network's frame for the pair (frame of the
\* previous call, incoming frame) at timestep k / ceil(factor).
C19_YieldsInBetweens ==
    (itp.calls >= 2 /\ itp.err = "") =>
        /\ Len(itp.out) = itp.ceilInterpolateFactor - 1
        /\ \A n \in 1..Len(itp.out) :
              itp.out[n] = IF itp.transition THEN SameFrame(itp.img1)
                           ELSE Interpolated(itp.prev, itp.img1, n)

\* the ncnn interpolator, factor 2.5, no transition: the third frame is
\* paired with the first one, not with the second
C19_NcnnStalePair ==
    /\ itp.backend = "ncnn"
    /\ itp.twiceFactor = 5
    /\ itp.calls = 3
    /\ ~itp.transition
    /\ itp.out = <<Interpolated(1, 3, 1), Interpolated(1, 3, 2)>>

\* ---- the scene detectors on their own ----
\* A frame is given by the mean of its samples (its picture is uniform); a
\* detector keeps the mean of the frame it compares with, -1 for None.  What
\* detect returns is written "None", "False" or "True".

\* the strategies SceneDetect.__init__ can build: the keys of scmethoddict,
\* and the model-based detector taken when a model path is given
SceneChangeMethods ==
    {"mean", "mean_diff", "mean_segmented", "pyscenedetect", "none", "model"}

\* the means of the frames handed to a detector
DetectMeans == {0, 40, 120}

\* a Python bool as it is written
PyBool(b) == IF b THEN "True" ELSE "False"

InitDetect ==
    /\ InitPipeline
    /\ cfg = PassthroughConfig
    /\ video = <<>>
    /\ accepts = -1
    /\ frm = None
    /\ itp = None
    /\ main = None
    /\ \E method \in SceneChangeMethods :
          scd = [method |-> method, calls |-> 0, i0 |-> -1, img |-> -1, ret |-> "", err |-> ""]

DetectLive(method) ==
    /\ scd # None
    /\ scd.method = method
    /\ scd.err = ""
    /\ scd.calls < MaxCalls

\* the state after detect(frame) returned ret for a frame of mean m
AfterDetect(m, kept, ret) ==
    [scd EXCEPT !.calls = @ + 1, !.img = m, !.i0 = kept, !.ret = ret]

\* NPMeanSCDetect.sceneDetect: a bare return for the first frame
NPMeanSCDetectCall ==
    /\ DetectLive("mean")
    /\ \E m \in DetectMeans :
          scd' = IF scd.i0 = -1 THEN AfterDetect(m, m, "None")
                 ELSE AfterDetect(m, m,
                        PyBool(\/ scd.i0 > m + sceneDetectSensitivity * 10
                               \/ scd.i0 < m - sceneDetectSensitivity * 10))
    /\ UNCHANGED <<pipelineVars, main, frm, itp>>

\* the segments of NPMeanSegmentedSCDetect that differ by more than the
\* sensitivity: all of them or none, the pictures being uniform
Detections(m0, m1, segments) ==
    IF m0 > m1 + sceneDetectSensitivity * 10 \/ m0 < m1 - sceneDetectSensitivity * 10
    THEN segments ELSE 0

\* NPMeanSegmentedSCDetect.sceneDetect, with segments = 10 and
\* maxDetections = segments // 2
NPMeanSegmentedSCDetectCall ==
    /\ DetectLive("mean_segmented")
    /\ \E m \in DetectMeans :
          scd' = IF scd.i0 = -1 THEN AfterDetect(m, m, "None")
                 ELSE AfterDetect(m, m, PyBool(Detections(scd.i0, m, 10) >= 10 \div 2))
    /\ UNCHANGED <<pipelineVars, main, frm, itp>>

\* cv2.absdiff of two uniform pictures, then np.mean
AbsDiff(m0, m1) == IF m0 > m1 THEN m0 - m1 ELSE m1 - m0

\* NPMeanDiffSCDetect.sceneDetect
NPMeanDiffSCDetectCall ==
    /\ DetectLive("mean_diff")
    /\ \E m \in DetectMeans :
          scd' = IF scd.i0 = -1 THEN AfterDetect(m, m, "None")
                 ELSE AfterDetect(m, m, PyBool(AbsDiff(scd.i0, m) > sceneDetectSensitivity * 10))
    /\ UNCHANGED <<pipelineVars, main, frm, itp>>

\* ContentDetector.process_frame for grey pictures: hue and saturation are 0,
\* the score is the luma distance weighted 1 of (1, 1, 1, 0), compared with
\* threshold * 10; with min_scene_len = 1 the flash filter passes every cut
\* on as [frame_num]
ContentDetectorCut(m0, m1) == AbsDiff(m0, m1) >= 3 * (sceneDetectSensitivity * 10)

\* PySceneDetect.sceneDetect: the ContentDetector's score is 0.0 for the first
\* frame; a cut it reports is a cut at this frame
PySceneDetectCall ==
    /\ DetectLive("pyscenedetect")
    /\ \E m \in DetectMeans :
          scd' = IF scd.i0 = -1 THEN AfterDetect(m, m, "False")
                 ELSE AfterDetect(m, m, PyBool(ContentDetectorCut(scd.i0, m)))
    /\ UNCHANGED <<pipelineVars, main, frm, itp>>

\* BaseDetector.sceneDetect
BaseDetectorCall ==
    /\ DetectLive("none")
    /\ \E m \in DetectMeans : scd' = AfterDetect(m, scd.i0, "False")
    /\ UNCHANGED <<pipelineVars, main, frm, itp>>

\* PyTorchSudoSceneDetect.sceneDetect and NCNNSudoSceneDetect.sceneDetect:
\* False for the first frame, then the network's verdict
ModelDetectorCall ==
    /\ DetectLive("model")
    /\ \E m \in DetectMeans, out \in BOOLEAN :
          scd' = IF scd.i0 = -1 THEN AfterDetect(m, m, "False")
                 ELSE AfterDetect(m, m, PyBool(out))
    /\ UNCHANGED <<pipelineVars, main, frm, itp>>

NextDetect ==
    \/ NPMeanSCDetectCall
    \/ NPMeanSegmentedSCDetectCall
    \/ NPMeanDiffSCDetectCall
    \/ PySceneDetectCall
    \/ BaseDetectorCall
    \/ ModelDetectorCall

SpecDetect == InitDetect /\ [][NextDetect]_vars

\* C20: whatever the strategy, detect returns the boolean False for the
\* first frame and a boolean for every later one, and raises nothing.
C20_DetectReturnsBoolean ==
    scd.calls >= 1 =>
        /\ scd.err = ""
        /\ scd.ret \in {"True", "False"}
        /\ scd.calls = 1 => scd.ret = "False"

\* the "mean" strategy returned None for the first frame
C20_FirstFrameNone ==
    /\ scd.method = "mean"
    /\ scd.calls = 1
    /\ scd.ret = "None"

\* ---- two scene detectors of one strategy, fed the same frames ----
\* Each detector takes the frames of one feed in order, at its own pace.

\* the strategies whose verdict is computed from the frames by this code alone
ComputedMethods == {"mean", "mean_diff", "mean_segmented", "pyscenedetect", "none"}

\* what sceneDetect returns for a frame of mean m when the detector keeps a
\* frame of mean kept (-1: none yet)
DetectorReturns(method, kept, m) ==
    IF method = "none" THEN "False"
    ELSE IF kept = -1 THEN (IF method = "pyscenedetect" THEN "False" ELSE "None")
    ELSE IF method = "mean"
         THEN PyBool(\/ kept > m + sceneDetectSensitivity * 10
                     \/ kept < m - sceneDetectSensitivity * 10)
    ELSE IF method = "mean_segmented"
         THEN PyBool(Detections(kept, m, 10) >= 10 \div 2)
    ELSE IF method = "mean_diff"
         THEN PyBool(AbsDiff(kept, m) > sceneDetectSensitivity * 10)
    ELSE PyBool(ContentDetectorCut(kept, m))

\* a bug: i0 is an attribute of the class, shared by every detector
KeptByClass(side) == scd.shared

\* self.i0 (self._last_frame for the ContentDetector): kept per instance
KeptBy(side) == scd[side].i0

Feeds == [1..MaxCalls -> DetectMeans]

InitTwin ==
    /\ InitPipeline
    /\ cfg = PassthroughConfig
    /\ video = <<>>
    /\ accepts = -1
    /\ frm = None
    /\ itp = None
    /\ main = None
    /\ \E method \in ComputedMethods, feed \in Feeds :
          scd = [method |-> method, feed |-> feed, shared |-> -1,
                 left |-> [i0 |-> -1, rets |-> <<>>],
                 right |-> [i0 |-> -1, rets |-> <<>>]]

\* SceneDetect.detect on one of the two detectors, for its next frame
TwinDetect(side) ==
    /\ scd # None
    /\ Len(scd[side].rets) < MaxCalls
    /\ LET m == scd.feed[Len(scd[side].rets) + 1]
           kept == IF scd.method = "none" THEN -1 ELSE m
       IN  scd' = [scd EXCEPT
                     ![side] = [i0 |-> kept,
                                rets |-> Append(@.rets, DetectorReturns(scd.method, KeptBy(side), m))],
                     !.shared = kept]
    /\ UNCHANGED <<pipelineVars, main, frm, itp>>

DetectLeft == TwinDetect("left")

DetectRight == TwinDetect("right")

NextTwin == DetectLeft \/ DetectRight

SpecTwin == InitTwin /\ [][NextTwin]_vars

C22_SingleOwner ==
    /\ \A i \in 1..Len(readQueue) : readQueue[i] # None => readQueue[i] # rframe
    /\ \A i \in 1..Len(writeQueue) :
          (writeQueue[i] # None /\ previewFrame # None) => writeQueue[i] # previewFrame

\* the buffer the render loop just put on the encode queue is the preview
\* frame of the telemetry thread
C22_PreviewOnEncodeQueue ==
    /\ Len(writeQueue) >= 1
    /\ writeQueue[Len(writeQueue)] # None
    /\ previewFrame # None
    /\ writeQueue[Len(writeQueue)] = previewFrame
    /\ tpc # "done"

\* C23: with an interpolation model, no buffer made from the first source
\* frame (for which the interpolator yields nothing) is put on the encode
\* queue, and the render loop does not return because of it.
C23_WarmUpFramePutsNothing ==
    cfg.interpolateModel =>
        /\ pc # "returned"
        /\ \A i \in 1..Len(RealPuts) : Slot(RealPuts[i])[2] # 1

\* the first buffer on the encode queue is the first source frame itself, and
\* the loop went on to the second one
C23_WarmUpFrameIsPut ==
    /\ cfg.interpolateModel
    /\ cfg.ceilInterpolateFactor >= 2
    /\ Len(RealPuts) >= 2
    /\ Slot(RealPuts[1]) = <<0, 1, 0>>
    /\ Slot(RealPuts[2])[2] = 2

\* the places where the render loop waits on a queue
BlockingPcs == {"get", "iPut", "fPut", "putNone"}

\* a step in which the render loop neither pulls nor puts
RenderIdles ==
    /\ encPuts' = encPuts
    /\ frame' = frame
    /\ Len(readQueue') >= Len(readQueue)

\* C24: the render loop comes to a pull only from a look at the pause flag
\* that found it unset; a look that finds it set leads to the sleep and the
\* sleep back to the look, with no pull and no put in between; and the loop
\* never waits anywhere but in that sleep and in the queue operations.
C24_PauseCheckedBeforePull ==
    /\ [][pc' = "get" => (pc = "get" \/ (pc = "check" /\ ~Truthy(isPaused)))]_vars
    /\ [][(pc = "check" /\ Truthy(isPaused) /\ pc' # pc) => pc' = "sleep"]_vars
    /\ [][(pc = "sleep" /\ pc' # pc) => pc' = "check"]_vars
    /\ [][Len(readQueue') < Len(readQueue) => pc = "get"]_vars
    /\ [][(pc = "check" \/ pc = "sleep") => RenderIdles]_vars
    /\ []((Running /\ pc # "done" /\ ~ENABLED (RenderCore \/ RenderSleep)) =>
            pc \in BlockingPcs)

\* the loop slept on a set flag, looked again, found it unset and is about
\* to pull the next frame
C24_Witness ==
    /\ h.slept
    /\ pc = "get"
    /\ ~Truthy(isPaused)
    /\ Len(RealPuts) >= 1
    /\ readQueue # <<>>

\* a step that transforms nothing: no frame, preview, count or cache changes
NothingTransformed ==
    /\ UNCHANGED <<frame, gen, interpolated_frame, frames_rendered, transformVars>>
    /\ UNCHANGED <<previewFrame, framesRendered>>

\* C25: a pull that yields the sentinel leads to stopWriting() and nothing
\* else; stopWriting() transforms nothing, sets the stop flag and leads to the
\* put of the sentinel; that put ends the loop, which never pulls or puts
\* again; and the sentinel is on the encode queue only with the stop flag set.
C25_SentinelStopsThenForwards ==
    /\ [][(pc = "get" /\ pc' # pc /\ frame' = None) =>
            (pc' = "stopWriting" /\ encPuts' = encPuts /\ ~stop')]_vars
    /\ [][(pc = "stopWriting" /\ pc' # pc) =>
            (pc' = "putNone" /\ stop' /\ encPuts' = encPuts /\ NothingTransformed)]_vars
    /\ [][(pc = "putNone" /\ pc' # pc) =>
            (pc' = "done" /\ encPuts' = Append(encPuts, None) /\ NothingTransformed)]_vars
    /\ [][pc = "done" =>
            (pc' = "done" /\ encPuts' = encPuts /\ Len(readQueue') >= Len(readQueue)
             /\ NothingTransformed)]_vars
    /\ [](\A i \in 1..Len(encPuts) : encPuts[i] = None => (stop /\ i = Len(encPuts)))
    /\ [](pc \in {"stopWriting", "putNone", "done"} => frame = None)

\* the loop has ended on the sentinel after real output: the stop flag is set,
\* the sentinel is the last thing it put, and the decode queue is drained
C25_Witness ==
    /\ pc = "done"
    /\ stop
    /\ Len(RealPuts) >= 2
    /\ encPuts[Len(encPuts)] = None
    /\ readQueue = <<>>
    /\ frames_rendered > 0

(***************************************************************************)
(* Start-up on the main thread (FFmpegWrite.__init__, InformationWriteOut  *)
(* .__init__, the Thread.start() calls of Render.__init__) and the live-   *)
(* preview thread MPVOutput.write_out_frames.                              *)
(***************************************************************************)
\* everything the pipeline threads work on, but for the process status
threadVars == <<inputVars, readerVars, readQueue, writeQueue, renderVars, transformVars,
                telemetryVars, pauseVars, writerVars, decPuts, encPuts, h>>

\* RenderVideo.py:297-306: the threads in the order of their start() calls
StartOrder == <<"sharedMemoryThread", "ffmpegReadThread", "ffmpegWriteThread",
                "renderThread">>

Started(t) == \E i \in 1..main.started : StartOrder[i] = t

\* shared_memory.SharedMemory(name=...) on a segment that exists or not
SharedMemory(exists) == IF exists THEN "attached" ELSE "FileNotFoundError"

\* a bug: the constructor has no `except FileNotFoundError`
OnNotFoundRaise == "raised"

\* FFmpeg.py:86-88: except FileNotFoundError: log, time.sleep(0.5), try again
OnNotFound == "attachSleep"

\* the main thread at FFmpegWrite.__init__, before any process or thread exists
InitMain ==
    main \in {[pc |-> "popenWrite", writeProcess |-> FALSE, sharedMemoryID |-> id,
               segment |-> seg, shm |-> FALSE, waited |-> FALSE, started |-> 0,
               output_to_mpv |-> mpv, mpc |-> "unborn", proc |-> None,
               stdoutClosed |-> FALSE] :
                 id \in {None, [name |-> "preview"]}, seg \in BOOLEAN, mpv \in BOOLEAN}

\* FFmpegBuffers.py:223-235: Popen of the encoder; on an exception onErroredExit
MainPopenWrite ==
    /\ Running /\ main.pc = "popenWrite"
    /\ \E ok \in BOOLEAN :
         IF ok
         THEN /\ main' = [main EXCEPT !.writeProcess = TRUE, !.pc = "attach"]
              /\ UNCHANGED processExit
         ELSE /\ processExit' = 1
              /\ UNCHANGED main
    /\ UNCHANGED <<threadVars, frm, itp, scd>>

\* FFmpeg.py:79-88: one pass of the `while True: try ... except` of the constructor
MainAttach ==
    /\ Running /\ main.pc = "attach"
    /\ main' =
         IF main.sharedMemoryID = None
         THEN [main EXCEPT !.pc = "pauseManager"]
         ELSE IF SharedMemory(main.segment) = "attached"
              THEN [main EXCEPT !.shm = TRUE, !.pc = "pauseManager"]
              ELSE [main EXCEPT !.waited = TRUE, !.pc = OnNotFound]
    /\ UNCHANGED <<pipelineVars, frm, itp, scd>>

\* FFmpeg.py:88: time.sleep(0.5) is over
MainAttachSleep ==
    /\ Running /\ main.pc = "attachSleep"
    /\ main' = [main EXCEPT !.pc = "attach"]
    /\ UNCHANGED <<pipelineVars, frm, itp, scd>>

\* FFmpeg.py:90-92 and PauseManager.__init__: attach the pause byte or create it
MainPauseManager ==
    /\ Running /\ main.pc = "pauseManager"
    /\ main' = [main EXCEPT !.pc = "start"]
    /\ UNCHANGED <<pipelineVars, frm, itp, scd>>

\* RenderVideo.py:303-306: the next Thread.start()
MainStartThread ==
    /\ Running /\ main.pc = "start"
    /\ main' = [main EXCEPT
                  !.started = @ + 1,
                  !.pc = IF main.started + 1 < Len(StartOrder) THEN "start"
                         ELSE IF main.output_to_mpv THEN "startMpv" ELSE "done"]
    /\ UNCHANGED <<pipelineVars, frm, itp, scd>>

\* RenderVideo.py:308-311: MPVoutThread.start()
MainStartMpv ==
    /\ Running /\ main.pc = "startMpv"
    /\ main' = [main EXCEPT !.mpc = "wait", !.pc = "done"]
    /\ UNCHANGED <<pipelineVars, frm, itp, scd>>

MainThread ==
    \/ MainPopenWrite \/ MainAttach \/ MainAttachSleep \/ MainPauseManager
    \/ MainStartThread \/ MainStartMpv

\* the external controller creates the preview segment
CreateSegment ==
    /\ Running
    /\ main.sharedMemoryID # None /\ ~main.segment
    /\ main' = [main EXCEPT !.segment = TRUE]
    /\ UNCHANGED <<pipelineVars, frm, itp, scd>>

\* FFmpegBuffers.py:542-543: while not self.FFMPegWrite.writeProcess: sleep(1)
MpvWait ==
    /\ Running /\ main.mpc = "wait"
    /\ main' = [main EXCEPT !.mpc = IF main.writeProcess THEN "popen" ELSE "wait"]
    /\ UNCHANGED <<pipelineVars, frm, itp, scd>>

\* a bug: the encoder's stdout is closed before the player is started
MpvPopenAfterClose ==
    /\ Running /\ main.mpc = "popen"
    /\ main' = [main EXCEPT !.stdoutClosed = TRUE, !.mpc = "close"]
    /\ UNCHANGED <<pipelineVars, frm, itp, scd>>

\* FFmpegBuffers.py:544-549: Popen of mpv with stdin=writeProcess.stdout;
\* an exception (no mpv on the path) ends the thread
MpvPopen ==
    /\ Running /\ main.mpc = "popen"
    /\ \E ok \in BOOLEAN :
         main' = IF ok
                 THEN [main EXCEPT !.proc = [stdin |-> "writeProcess.stdout"],
                                   !.mpc = "close"]
                 ELSE [main EXCEPT !.mpc = "raised"]
    /\ UNCHANGED <<pipelineVars, frm, itp, scd>>

\* a bug: the live-preview thread takes a buffer off the encode queue
MpvCloseTakesBuffer ==
    /\ Running /\ main.mpc = "close"
    /\ writeQueue # <<>>
    /\ writeQueue' = Tail(writeQueue)
    /\ main' = [main EXCEPT !.stdoutClosed = TRUE, !.mpc = "procWait"]
    /\ UNCHANGED <<inputVars, readerVars, readQueue, renderVars, transformVars,
                   telemetryVars, pauseVars, writerVars, processExit, decPuts, encPuts,
                   h, frm, itp, scd>>

\* FFmpegBuffers.py:550: self.FFMPegWrite.writeProcess.stdout.close()
MpvClose ==
    /\ Running /\ main.mpc = "close"
    /\ main' = [main EXCEPT !.stdoutClosed = TRUE, !.mpc = "procWait"]
    /\ UNCHANGED <<pipelineVars, frm, itp, scd>>

\* FFmpegBuffers.py:551: self.proc.wait() returns when the player has exited
MpvProcWait ==
    /\ Running /\ main.mpc = "procWait"
    /\ main.proc # None
    /\ main' = [main EXCEPT !.mpc = "stop"]
    /\ UNCHANGED <<pipelineVars, frm, itp, scd>>

\* FFmpegBuffers.py:552-553: self.stop(); os._exit(0)
MpvStop ==
    /\ Running /\ main.mpc = "stop"
    /\ processExit' = 0
    /\ UNCHANGED <<threadVars, unitVars>>

MpvThread == MpvWait \/ MpvPopen \/ MpvClose \/ MpvProcWait \/ MpvStop

\* the four pipeline threads run from their start() call on
SharedMemoryThread == Started("sharedMemoryThread") /\ TelemetryTick

FfmpegReadThread == Started("ffmpegReadThread") /\ Reader

FfmpegWriteThread == Started("ffmpegWriteThread") /\ WriterClean

RenderThread == Started("renderThread") /\ RenderCore

InitBoot ==
    /\ cfg \in PauseConfigs
    /\ video \in Videos
    /\ accepts = -1
    /\ InitPipeline
    /\ frm = None /\ itp = None /\ scd = None
    /\ InitMain

NextBoot ==
    \/ MainThread \/ CreateSegment \/ MpvThread
    \/ SharedMemoryThread \/ FfmpegReadThread \/ FfmpegWriteThread \/ RenderThread

SpecBoot == InitBoot /\ [][NextBoot]_vars

\* what the writer holds between its get and its write
WriterHand == IF wpc = "write" THEN <<wframe>> ELSE <<>>

\* a step of the thread whose position is p puts one item on queue q
PutBy(p, q) == p' # p /\ Len(q') = Len(q) + 1 /\ SubSeq(q', 1, Len(q)) = q

\* a step of the thread whose position is p takes the head of queue q
TakenBy(p, q) == p' # p /\ q # <<>> /\ q' = Tail(q)

\* C26: the decode queue changes only by a put of the reader thread or a get
\* of the render thread, the encode queue only by a put of the render thread
\* or a get of the writer thread, and no step of the main thread or of the
\* live-preview thread changes either; what the encoder has been given,
\* then the buffer in the writer's hand, then the buffers still queued, is
\* at every moment the sequence the render loop has put, and once the writer
\* has taken the sentinel the encoder's input is that whole sequence.
C26_OneProducerOneConsumerFifo ==
    /\ [][readQueue' # readQueue =>
            ((PutBy(rpc, readQueue) /\ pc' = pc) \/ (TakenBy(pc, readQueue) /\ rpc' = rpc))]_vars
    /\ [][writeQueue' # writeQueue =>
            ((PutBy(pc, writeQueue) /\ wpc' = wpc) \/ (TakenBy(wpc, writeQueue) /\ pc' = pc))]_vars
    /\ [][main' # main => (readQueue' = readQueue /\ writeQueue' = writeQueue)]_vars
    /\ [](encoderIn \o WriterHand \o SelectSeq(writeQueue, LAMBDA x : x # None) = RealPuts)
    /\ [](wpc \in {"close", "done"} => (encoderIn = RealPuts /\ HasSentinel(encPuts)))

\* with the live-preview thread running and the player attached, the writer
\* has taken the sentinel after giving the encoder every buffer of a run with
\* interpolation
C26_Witness ==
    /\ main.output_to_mpv /\ main.proc # None
    /\ wpc = "done"
    /\ cfg.interpolateModel
    /\ Len(encoderIn) >= 4
    /\ encoderIn = RealPuts
    /\ processExit = -1

\* the source frames the render loop has pulled so far
Pulled ==
    Len(SelectSeq(decPuts, LAMBDA x : x # None))
        - Len(SelectSeq(readQueue, LAMBDA x : x # None))

\* the render loop holds a source frame whose own output is not yet put
FrameInHand == pc \notin {"check", "sleep", "get", "stopWriting", "putNone", "done"}

\* the source frames whose own output is on the encode queue
FullyProcessed == Pulled - (IF FrameInHand THEN 1 ELSE 0)

\* C27: the counter of the render loop is ceil(F) times the number of source
\* frames whose own output has been put; it changes only in the step that
\* puts a source frame's own output, there by exactly ceil(F); and when the
\* loop has ended it is ceil(F) times the length of the video.
C27_CounterIsFramesTimesCeil ==
    /\ [](frames_rendered = FullyProcessed * cfg.ceilInterpolateFactor)
    /\ [][frames_rendered' # frames_rendered =>
            /\ pc = "fPut"
            /\ encPuts' = Append(encPuts, AsBytes(frame))
            /\ frames_rendered' = frames_rendered + cfg.ceilInterpolateFactor]_vars
    /\ [][(pc = "fPut" /\ pc' # pc) =>
            frames_rendered' = frames_rendered + cfg.ceilInterpolateFactor]_vars
    /\ [](pc = "done" => frames_rendered = Len(video) * cfg.ceilInterpolateFactor)

\* three source frames at factor two: the counter stands at six although
\* five buffers were put
C27_Witness ==
    /\ cfg.ceilInterpolateFactor = 2
    /\ FullyProcessed = 3
    /\ frames_rendered = 6
    /\ Len(RealPuts) = 5
    /\ pc = "check"

\* C28: every pass of the telemetry loop made before the stop flag is set
\* has read the pause byte and stored the result in isPaused, also the passes
\* made before a preview frame and a positive frame count are there.
C28_EveryTickReadsPauseByte == h.ticksRead

\* the controller has set the pause byte, the telemetry loop has made a pass
\* without reading it, and the render loop, seeing an unset flag, has pulled
\* a frame
C28_PausedButPulling ==
    /\ pauseByte = 1
    /\ ~h.ticksRead
    /\ ~Truthy(isPaused)
    /\ previewFrame = None
    /\ pc \notin {"check", "sleep", "get"}
    /\ frame # None

\* start-up under a scheduler that lets the main thread run; a short video
\* without models
InitBootLive ==
    /\ cfg = PassthroughConfig
    /\ video \in UNION {[1..n -> Means] : n \in 0..LiveFrames}
    /\ accepts = -1
    /\ InitPipeline
    /\ frm = None /\ itp = None /\ scd = None
    /\ InitMain

SpecBootLive == InitBootLive /\ [][NextBoot]_vars /\ WF_vars(MainThread)

\* the constructor is in its attach loop for a configured preview segment
AttachPending ==
    /\ main.pc \in {"attach", "attachSleep"}
    /\ main.sharedMemoryID # None
    /\ ~main.shm

\* C29: an attach that finds no segment leads to the sleep and the sleep to
\* another attach; the main thread never ends up with the not-found error
\* raised; no thread is started, and nothing is read, pulled or put, while a
\* configured segment is unattached; and once the segment exists, a pending
\* attach eventually succeeds.
C29_AttachRetriedUntilSegmentExists ==
    /\ [][(AttachPending /\ main.pc = "attach" /\ ~main.segment /\ main'.pc # main.pc) =>
            (main'.pc = "attachSleep" /\ ~main'.shm)]_vars
    /\ [][(main.pc = "attachSleep" /\ main'.pc # main.pc) => main'.pc = "attach"]_vars
    /\ [](main.pc # "raised")
    /\ []((main.started > 0 \/ main.mpc # "unborn") =>
            (main.sharedMemoryID # None => main.shm))
    /\ [](AttachPending =>
            (readPos = 0 /\ decPuts = <<>> /\ pc = "check" /\ encPuts = <<>> /\ wpc = "get"))
    /\ ((AttachPending /\ main.segment) ~> main.shm)

\* the constructor found no segment, slept, attached once the controller had
\* created it, and the four threads run
C29_Witness ==
    /\ main.waited
    /\ main.shm
    /\ main.segment
    /\ main.started = Len(StartOrder)
    /\ Len(encoderIn) >= 1

\* the player runs with the encoder's stdout as its stdin
PlayerAttached == main.proc # None /\ main.proc.stdin = "writeProcess.stdout"

\* C30: the handle on the encoder's stdout is closed only in a state where
\* the player has been started on that stdout, the step that closes it starts
\* from such a state, the player is started only when the encoder process
\* exists, and without the live-preview sink the handle is never closed.
C30_StdoutClosedAfterPlayerAttached ==
    /\ [](main.stdoutClosed => (PlayerAttached /\ main.output_to_mpv))
    /\ [][(main'.stdoutClosed /\ ~main.stdoutClosed) => PlayerAttached]_vars
    /\ [][main'.proc # main.proc => (main.writeProcess /\ ~main.stdoutClosed)]_vars
    /\ [](main.proc # None => main.writeProcess)

\* the player is attached, the handle is closed, and the encoder is being fed
C30_Witness ==
    /\ main.stdoutClosed
    /\ PlayerAttached
    /\ main.mpc = "procWait"
    /\ Len(encoderIn) >= 1
    /\ processExit = -1

(***************************************************************************)
(* Output size: the scale bookkeeping of Render.__init__, the frame size   *)
(* FFmpegWrite gives the encoder, and the size of each buffer render()     *)
(* puts.  A buffer is modelled by its geometry and its length in bytes.    *)
(***************************************************************************)
MaxWidth == 3
MaxScale == 3

\* bytes per pixel: RGB24, or RGB48 in HDR mode
BytesPerPixel(hdr_mode) == IF hdr_mode THEN 6 ELSE 3

\* a decoded frame or an in-between frame: width x height pixels
SourceBuffer(width, height, hdr_mode) ==
    [width |-> width, height |-> height, n |-> width * height * BytesPerPixel(hdr_mode)]

\* upscaleOption(frame): Frame(videoWidth * scale, videoHeight * scale) holding
\* the network's output
UpscaleCall(b, scale) ==
    [width |-> b.width * scale, height |-> b.height * scale, n |-> b.n * scale * scale]

\* a bug: the override resize hands its input through
resize_image_bytes_skipped(b, width, height, target_width, target_height) == b

\* Util.resize_image_bytes: a no-op on equal sizes; else channels is
\* len / (height * width), dtype uint8 for 3 and uint16 otherwise, the reshape
\* to (height, width, 3) raises unless the length fits, and the result holds
\* target_width x target_height pixels of the same dtype
resize_image_bytes(b, width, height, target_width, target_height) ==
    IF target_width = width /\ target_height = height THEN b
    ELSE LET itemsize == IF b.n = 3 * height * width THEN 1 ELSE 2
         IN  IF b.n # height * width * 3 * itemsize
             THEN [raised |-> "ValueError"]
             ELSE [width |-> target_width, height |-> target_height,
                   n |-> target_width * target_height * 3 * itemsize]

\* the arguments of Render.__init__ that decide sizes; 0 stands for an
\* override scale that is not given
InitSize ==
    /\ main \in {[pc |-> "setup", width |-> wd, height |-> ht, hdr_mode |-> hdr,
                  upscaleModel |-> up, nativeScale |-> ns, interpolateModel |-> ip,
                  override_arg |-> ov, override_upscale_scale |-> ov,
                  modelScale |-> 0, upscaleTimes |-> 0,
                  outputWidth |-> 0, outputHeight |-> 0, put |-> None, kind |-> "none"] :
                    wd \in 1..MaxWidth, ht \in 1..MaxWidth, hdr \in BOOLEAN,
                    up \in BOOLEAN, ns \in 1..MaxScale, ip \in BOOLEAN,
                    ov \in 0..MaxScale}
    /\ frm = None /\ itp = None /\ scd = None
    /\ cfg = PassthroughConfig
    /\ video = <<>>
    /\ accepts = -1
    /\ InitPipeline

\* RenderVideo.py:189-194, 217-220 with setupUpscale line 478, and
\* FFmpegWrite.__init__ lines 189-190 called with line 263's upscaleTimes
SizeSetup ==
    /\ main.pc = "setup"
    /\ LET modelScale == IF main.upscaleModel THEN main.nativeScale ELSE 1
           times478 == IF main.upscaleModel
                       THEN (IF main.override_upscale_scale = 0 THEN modelScale
                             ELSE main.override_upscale_scale)
                       ELSE 1
           override == IF main.override_upscale_scale # 0
                          /\ modelScale = main.override_upscale_scale
                       THEN 0 ELSE main.override_upscale_scale
           times263 == IF override = 0 THEN times478 ELSE override
       IN  main' = [main EXCEPT !.pc = "render",
                                !.modelScale = modelScale,
                                !.upscaleTimes = times478,
                                !.override_upscale_scale = override,
                                !.outputWidth = main.width * times263,
                                !.outputHeight = main.height * times263]
    /\ UNCHANGED <<pipelineVars, frm, itp, scd>>

\* RenderVideo.py:356-365 and 372-384: upscale, then the override resize
SizePost(b) ==
    LET up == IF main.upscaleModel THEN UpscaleCall(b, main.modelScale) ELSE b
    IN  IF main.override_upscale_scale # 0
        THEN resize_image_bytes(up,
                                main.width * main.modelScale,
                                main.height * main.modelScale,
                                main.width * main.override_upscale_scale,
                                main.height * main.override_upscale_scale)
        ELSE up

\* RenderVideo.py:354-368: an in-between frame is post-processed and put
SizePutInterpolated ==
    /\ main.pc = "render" /\ main.interpolateModel
    /\ main' = [main EXCEPT
                  !.put = SizePost(SourceBuffer(main.width, main.height, main.hdr_mode)),
                  !.kind = "interpolated"]
    /\ UNCHANGED <<pipelineVars, frm, itp, scd>>

\* RenderVideo.py:372-390: the source frame is post-processed and put
SizePutFrame ==
    /\ main.pc = "render"
    /\ main' = [main EXCEPT
                  !.put = SizePost(SourceBuffer(main.width, main.height, main.hdr_mode)),
                  !.kind = "source"]
    /\ UNCHANGED <<pipelineVars, frm, itp, scd>>

NextSize == SizeSetup \/ SizePutInterpolated \/ SizePutFrame

SpecSize == InitSize /\ [][NextSize]_vars

\* the scale the output is meant to have
OutputScale ==
    IF main.override_arg # 0 THEN main.override_arg
    ELSE IF main.upscaleModel THEN main.nativeScale ELSE 1

\* C31: every buffer put, in-between or source, is no error value and has
\* (width*S)*(height*S)*bytes-per-pixel bytes, S the override scale when one
\* is given and else the model's native scale (1 without a model); that is
\* also outputWidth*outputHeight*bytes-per-pixel of the encoder.
C31_PutBufferHasEncoderFrameSize ==
    (main.pc = "render" /\ main.put # None) =>
        /\ "n" \in DOMAIN main.put
        /\ main.put.n = (main.width * OutputScale) * (main.height * OutputScale)
                            * BytesPerPixel(main.hdr_mode)
        /\ main.put.n = main.outputWidth * main.outputHeight * BytesPerPixel(main.hdr_mode)

\* an HDR in-between frame of a 3x model brought down to 2x by the override
C31_Witness ==
    /\ main.pc = "render"
    /\ main.kind = "interpolated"
    /\ main.upscaleModel /\ main.nativeScale = 3 /\ main.override_arg = 2
    /\ main.hdr_mode
    /\ main.width = 3 /\ main.height = 2
    /\ main.put # None
    /\ main.put.n = 6 * 4 * 6

(***************************************************************************)
(* The scene detectors field by field (utils/SceneDetect.py), with the     *)
(* ContentDetector's FlashFilter.  Pictures are uniform grey; -1 stands    *)
(* for None.  first, prev and img record the frames handed in so far and   *)
(* are not fields of the detectors.                                        *)
(***************************************************************************)
\* PySceneDetect.__init__: ContentDetector(..., min_scene_len=1)
FilterLength == 1

NewFlashFilter ==
    [last_above |-> -1, merge_enabled |-> FALSE, merge_triggered |-> FALSE,
     merge_start |-> -1]

\* FlashFilter.filter in MERGE mode with _filter_merge: the filter after the
\* call and the list it returns
FilterMerge(ff, num, above) ==
    LET la0 == IF ff.last_above = -1 THEN num ELSE ff.last_above
        min_length_met == (num - la0) >= FilterLength
        la1 == IF above THEN num ELSE la0
        kept == [ff EXCEPT !.last_above = la1]
    IN  IF ~(FilterLength > 0)
        THEN [ff |-> ff, out |-> IF above THEN <<num>> ELSE <<>>]
        ELSE IF ff.merge_triggered
        THEN IF min_length_met /\ ~above /\ (la1 - ff.merge_start) >= FilterLength
             THEN [ff |-> [kept EXCEPT !.merge_triggered = FALSE], out |-> <<la1>>]
             ELSE [ff |-> kept, out |-> <<>>]
        ELSE IF ~above THEN [ff |-> kept, out |-> <<>>]
        ELSE IF min_length_met
        THEN [ff |-> [kept EXCEPT !.merge_enabled = TRUE], out |-> <<num>>]
        ELSE IF ff.merge_enabled
        THEN [ff |-> [kept EXCEPT !.merge_triggered = TRUE, !.merge_start = num],
              out |-> <<>>]
        ELSE [ff |-> kept, out |-> <<>>]

\* a bug: frameNum is advanced before the frame is handed to the detector
FrameNumPassedAfterIncrement(frameNum) == frameNum + 1

\* PySceneDetect.sceneDetect: process_frame(self.frameNum, frame), then += 1
FrameNumPassed(frameNum) == frameNum

GateMethods == {"mean", "mean_segmented", "mean_diff", "pyscenedetect", "model", "none"}

InitGate ==
    /\ InitPipeline
    /\ cfg = PassthroughConfig
    /\ video = <<>>
    /\ accepts = -1
    /\ frm = None /\ itp = None /\ main = None
    /\ \E method \in GateMethods :
          scd = [method |-> method, calls |-> 0, first |-> -1, prev |-> -1, img |-> -1,
                 i0 |-> -1, i1 |-> -1, kept |-> -1, frameNum |-> 0,
                 flash |-> NewFlashFilter, above |-> FALSE, frameList |-> <<>>,
                 mismatch |-> FALSE, ret |-> ""]

GateLive(method) == scd # None /\ scd.method = method /\ scd.calls < MaxCalls

\* the record of the frames handed in, after a call with a frame of mean m
Handed(m) ==
    [scd EXCEPT !.calls = @ + 1, !.first = IF @ = -1 THEN m ELSE @,
                !.prev = scd.img, !.img = m]

\* NPMeanSCDetect.sceneDetect (lines 31-45): i0 is set by the first call only
GateMean ==
    /\ GateLive("mean")
    /\ \E m \in DetectMeans :
          scd' = IF scd.i0 = -1
                 THEN [Handed(m) EXCEPT !.i0 = m, !.kept = m, !.ret = "None"]
                 ELSE [Handed(m) EXCEPT
                         !.i1 = m, !.kept = m,
                         !.ret = PyBool(\/ scd.kept > m + sceneDetectSensitivity * 10
                                        \/ scd.kept < m - sceneDetectSensitivity * 10)]
    /\ UNCHANGED <<pipelineVars, main, frm, itp>>

\* NPMeanSegmentedSCDetect.sceneDetect (lines 88-107); kept is segmentsImg1Mean
GateMeanSegmented ==
    /\ GateLive("mean_segmented")
    /\ \E m \in DetectMeans :
          scd' = IF scd.i0 = -1
                 THEN [Handed(m) EXCEPT !.i0 = m, !.kept = m, !.ret = "None"]
                 ELSE [Handed(m) EXCEPT
                         !.i1 = m, !.kept = m,
                         !.ret = PyBool(Detections(scd.kept, m, 10) >= 10 \div 2)]
    /\ UNCHANGED <<pipelineVars, main, frm, itp>>

\* NPMeanDiffSCDetect.sceneDetect (lines 118-133): self.i0 = self.i1 each call
GateMeanDiff ==
    /\ GateLive("mean_diff")
    /\ \E m \in DetectMeans :
          scd' = IF scd.i0 = -1
                 THEN [Handed(m) EXCEPT !.i0 = m, !.ret = "None"]
                 ELSE [Handed(m) EXCEPT
                         !.i1 = m, !.i0 = m,
                         !.ret = PyBool(AbsDiff(scd.i0, m) > sceneDetectSensitivity * 10)]
    /\ UNCHANGED <<pipelineVars, main, frm, itp>>

\* PySceneDetect.sceneDetect (lines 143-155) with ContentDetector.process_frame;
\* kept is the detector's _last_frame
GatePySceneDetect ==
    /\ GateLive("pyscenedetect")
    /\ \E m \in DetectMeans :
          LET above == scd.kept # -1 /\ ContentDetectorCut(scd.kept, m)
              res == FilterMerge(scd.flash, FrameNumPassed(scd.frameNum), above)
              frameNum == scd.frameNum + 1
              bad == res.out # <<>> /\ frameNum # res.out[1] + 1
          IN  scd' = [Handed(m) EXCEPT
                        !.kept = m, !.above = above, !.flash = res.ff,
                        !.frameList = res.out, !.frameNum = frameNum,
                        !.mismatch = @ \/ bad,
                        !.ret = IF bad THEN "False" ELSE PyBool(res.out # <<>>)]
    /\ UNCHANGED <<pipelineVars, main, frm, itp>>

\* PyTorchSudoSceneDetect / NCNNSudoSceneDetect (lines 163-188): the verdict
\* is the network's
GateModel ==
    /\ GateLive("model")
    /\ \E m \in DetectMeans, out \in BOOLEAN :
          scd' = IF scd.i0 = -1
                 THEN [Handed(m) EXCEPT !.i0 = m, !.ret = "False"]
                 ELSE [Handed(m) EXCEPT !.i0 = m, !.ret = PyBool(out)]
    /\ UNCHANGED <<pipelineVars, main, frm, itp>>

\* BaseDetector.sceneDetect (lines 12-13)
GateNone ==
    /\ GateLive("none")
    /\ \E m \in DetectMeans : scd' = [Handed(m) EXCEPT !.ret = "False"]
    /\ UNCHANGED <<pipelineVars, main, frm, itp>>

NextGate ==
    \/ GateMean \/ GateMeanSegmented \/ GateMeanDiff
    \/ GatePySceneDetect \/ GateModel \/ GateNone

SpecGate == InitGate /\ [][NextGate]_vars

\* the value a detector compares the next frame with
ComparedWith ==
    IF scd.method \in {"mean", "mean_segmented", "pyscenedetect"} THEN scd.kept
    ELSE scd.i0

\* every verdict is the one the previous and the current frame alone give,
\* and the value the next frame will be compared with is the current frame's
VerdictFromLastPair ==
    (scd.calls >= 1 /\ scd.method # "none") =>
        /\ ComparedWith = scd.img
        /\ scd.method # "model" => scd.ret = DetectorReturns(scd.method, scd.prev, scd.img)

\* C32: after a call of detect(f), every frame a detector still holds is f:
\* no field keeps a frame handed in before f.
C32_RetainsOnlyLastFrame ==
    scd.calls >= 1 =>
        /\ scd.i0 \in {-1, scd.img}
        /\ scd.i1 \in {-1, scd.img}
        /\ scd.kept \in {-1, scd.img}

\* after three frames the "mean" detector still holds the first one in i0,
\* which is neither the frame just handed in nor the one before it
C32_FirstFrameKept ==
    /\ scd.method = "mean"
    /\ scd.calls = 3
    /\ scd.i0 = scd.first
    /\ scd.i0 # scd.img
    /\ scd.i0 # scd.prev
    /\ scd.kept = scd.img

\* C37: with the pyscenedetect strategy the list the ContentDetector returns
\* is empty or names exactly the frame just passed in, the mismatch branch is
\* never taken, the filter never starts merging, and the call returns True
\* exactly when this frame's score reached the threshold.
C37_CutNamesCurrentFrame ==
    (scd.method = "pyscenedetect" /\ scd.calls >= 1) =>
        /\ ~scd.mismatch
        /\ scd.frameList \in {<<>>, <<scd.calls - 1>>}
        /\ scd.frameNum = scd.calls
        /\ ~scd.flash.merge_triggered
        /\ scd.above <=> scd.frameList # <<>>
        /\ scd.ret = PyBool(scd.above)

\* dark, bright, dark: a cut at the second frame and again at the third,
\* each reported in its own call
C37_Witness ==
    /\ scd.method = "pyscenedetect"
    /\ scd.calls = 3
    /\ scd.first = 0 /\ scd.prev = 120 /\ scd.img = 0
    /\ scd.flash.merge_enabled
    /\ scd.frameList = <<2>>
    /\ scd.ret = "True"

(***************************************************************************)
(* The telemetry loop read by read: writeOutInformation evaluates          *)
(* `self.previewFrame is not None and self.framesRendered > 0`, then reads *)
(* framesRendered again for the FPS and once more for calculateETA, while  *)
(* the render thread calls setFramesRendered and setPreviewFrame.          *)
(***************************************************************************)
\* FFmpeg.py:147-149: `while not self.stop`, then the left operand of the `and`
TickStart ==
    /\ Running /\ tpc = "loop"
    /\ IF stop THEN tpc' = "done" /\ UNCHANGED h
       ELSE IF previewFrame # None THEN tpc' = "count" /\ UNCHANGED h
       ELSE tpc' = "loop" /\ h' = [h EXCEPT !.ticksRead = FALSE]
    /\ UNCHANGED <<unitVars, inputVars, readerVars, readQueue, writeQueue, renderVars,
                   transformVars, previewFrame, framesRendered, isPaused, stop, pauseVars,
                   writerVars, processExit, decPuts, encPuts>>

\* a bug: the condition is `self.previewFrame is not None` alone
TickCountUnchecked ==
    /\ Running /\ tpc = "count"
    /\ tpc' = "fps"
    /\ UNCHANGED <<unitVars, inputVars, readerVars, readQueue, writeQueue, renderVars,
                   transformVars, previewFrame, framesRendered, isPaused, stop, pauseVars,
                   writerVars, processExit, decPuts, encPuts, h>>

\* FFmpeg.py:149: the right operand, `self.framesRendered > 0`
TickCount ==
    /\ Running /\ tpc = "count"
    /\ IF framesRendered > 0 THEN tpc' = "fps" /\ UNCHANGED h
       ELSE tpc' = "loop" /\ h' = [h EXCEPT !.ticksRead = FALSE]
    /\ UNCHANGED <<unitVars, inputVars, readerVars, readQueue, writeQueue, renderVars,
                   transformVars, previewFrame, framesRendered, isPaused, stop, pauseVars,
                   writerVars, processExit, decPuts, encPuts>>

\* FFmpeg.py:151: fps = round(self.framesRendered / elapsed)
TickFps ==
    /\ Running /\ tpc = "fps"
    /\ tpc' = "eta"
    /\ UNCHANGED <<unitVars, inputVars, readerVars, readQueue, writeQueue, renderVars,
                   transformVars, previewFrame, framesRendered, isPaused, stop, pauseVars,
                   writerVars, processExit, decPuts, encPuts, h>>

\* FFmpeg.py:152 with calculateETA (110-128): elapsed_time / framesRendered;
\* a ZeroDivisionError ends the thread
TickEta ==
    /\ Running /\ tpc = "eta"
    /\ tpc' = IF framesRendered = 0 THEN "raised" ELSE "publish"
    /\ h' = [h EXCEPT !.etaDivisor = framesRendered]
    /\ UNCHANGED <<unitVars, inputVars, readerVars, readQueue, writeQueue, renderVars,
                   transformVars, previewFrame, framesRendered, isPaused, stop, pauseVars,
                   writerVars, processExit, decPuts, encPuts>>

\* FFmpeg.py:153-178: print, copy the preview, read the pause byte, sleep(0.5)
TickPublish ==
    /\ Running /\ tpc = "publish"
    /\ isPaused' = PauseManagerRead
    /\ tpc' = "loop"
    /\ UNCHANGED <<unitVars, inputVars, readerVars, readQueue, writeQueue, renderVars,
                   transformVars, previewFrame, framesRendered, stop, pauseVars,
                   writerVars, processExit, decPuts, encPuts, h>>

TelemetryReads == TickStart \/ TickCount \/ TickFps \/ TickEta \/ TickPublish

NextTick == Reader \/ RenderCore \/ WriterClean \/ TelemetryReads

SpecTick == InitPause /\ [][NextTick]_vars

\* C33: calculateETA never divides by zero: the telemetry thread does not
\* end in an error, the count is at least 1 whenever it is about to be read
\* for the FPS or the ETA, and once a preview frame is there a positive
\* published count never becomes 0.
C33_EtaDivisorPositive ==
    /\ [](tpc # "raised")
    /\ [](tpc \in {"fps", "eta"} => framesRendered >= 1)
    /\ [](h.etaDivisor # 0)
    /\ [][(previewFrame # None /\ framesRendered > 0) => framesRendered' > 0]_vars

\* an ETA was computed from a count that the render thread has replaced since
C33_Witness ==
    /\ tpc = "publish"
    /\ h.etaDivisor >= 1
    /\ framesRendered > h.etaDivisor
    /\ pc = "fPreview"

\* ---- what the interpolator holds between two calls ----

\* the frame the next call's in-between frames are made from: for the torch
\* classes frame0; for InterpolateRIFENCNN the image Rife.process_bytes keeps
\* (it takes its image0_bytes argument only while it holds none)
RetainedByInterpolator ==
    IF itp.backend = "ncnn" /\ itp.image0 # 0 THEN itp.image0 ELSE itp.frame0

\* C38: ncnn path: once the in-between frames of a pair were produced, the
\* Rife wrapper's cached first image is the current frame, after cut and
\* non-cut pairs and for every factor above 1, fractional ones included.
C38_RifeCacheIsCurrentFrame ==
    (itp.backend = "ncnn" /\ itp.calls >= 2 /\ itp.err = "") => itp.image0 = itp.img1

\* factor 1.5 (one timestep, 1/2, against max_timestep 1/3): after the pair
\* (1, 2) without a cut the cache still holds frame 1
C38_CacheKeepsFirstFrame ==
    /\ itp.backend = "ncnn"
    /\ itp.twiceFactor = 3
    /\ itp.calls = 2
    /\ ~itp.transition
    /\ itp.image0 = 1
    /\ itp.frame0 = 2

\* C34: when the render loop starts on source frame k (k >= 2) the frame the
\* interpolator retained is frame k - 1, the frame the scene-cut gate compares
\* with (VerdictFromLastPair), after cut and non-cut frames alike.
C34_InterpolatorHoldsPreviousFrame ==
    (itp.calls >= 1 /\ itp.err = "") => RetainedByInterpolator = itp.img1

\* ncnn, factor 2.5: a cut at frame 2 moved the cache to frame 2, frame 3
\* came without a cut, and frame 4 will be paired with frame 2 while the gate
\* compares it with frame 3
C34_GateAndInterpolatorDiffer ==
    /\ itp.backend = "ncnn"
    /\ itp.twiceFactor = 5
    /\ itp.calls = 3
    /\ ~itp.transition
    /\ itp.img1 = 3
    /\ RetainedByInterpolator = 2

\* ---- a setter that fails ----

\* C36: when set_frame_bytes, set_frame_np or set_frame_tensor raises because
\* of its argument, the three cached representations and the width and
\* height of the Frame are what they were before the call.
C36_FailedSetterLeavesFrame ==
    (/\ LastOp \in Setters
     /\ frm.err # ""
     /\ frm.heap[frm.arg].kind # KindOf(LastOp)) =>
        /\ frm.f.bytes = frm.before.f.bytes
        /\ frm.f.np = frm.before.f.np
        /\ frm.f.tensor = frm.before.f.tensor
        /\ frm.f.width = frm.before.f.width
        /\ frm.f.height = frm.before.f.height

\* a Frame of the ncnn backend held an array and the bytes made from it;
\* set_frame_tensor("...") raised and both are gone
C36_CachesLostOnFailure ==
    /\ LastOp = "set_frame_tensor"
    /\ frm.err # ""
    /\ frm.heap[frm.arg].kind # "tensor"
    /\ frm.before.f.np # 0
    /\ frm.before.f.bytes # 0
    /\ frm.f.np = 0
    /\ frm.f.bytes = 0
    /\ frm.f.width = frm.before.f.width

\* ---- FFmpegRead: one frame read from the decoder's pipe ----
\* A buffer is given by its length in bytes; None is length -1.

MaxSide == 4

\* FFmpegRead.__init__ line 62
Yuv420pMOD(input_pixel_format, hdr_mode) == input_pixel_format = "yuv420p" /\ ~hdr_mode

\* FFmpegRead.__init__ lines 65-71
InputFrameChunkSize(width, height, hdr_mode, yuv420pMOD) ==
    IF hdr_mode THEN width * height * 6
    ELSE IF yuv420pMOD THEN (width * height * 3) \div 2
    ELSE width * height * 3

InitRead ==
    /\ main \in {[pc |-> "init", width |-> wd, height |-> ht, hdr_mode |-> hdr,
                  input_pixel_format |-> fmt, yuv420pMOD |-> FALSE,
                  inputFrameChunkSize |-> 0, read |-> -1, rows |-> 0,
                  chunk |-> -1, err |-> ""] :
                    wd \in 1..MaxSide, ht \in 1..MaxSide, hdr \in BOOLEAN,
                    fmt \in {"yuv420p", "yuv444p"}}
    /\ frm = None /\ itp = None /\ scd = None
    /\ cfg = PassthroughConfig
    /\ video = <<>>
    /\ accepts = -1
    /\ InitPipeline

\* FFmpegRead.__init__
ReadInit ==
    /\ main.pc = "init"
    /\ LET mod == Yuv420pMOD(main.input_pixel_format, main.hdr_mode)
       IN  main' = [main EXCEPT
                      !.pc = "read",
                      !.yuv420pMOD = mod,
                      !.inputFrameChunkSize =
                          InputFrameChunkSize(main.width, main.height, main.hdr_mode, mod)]
    /\ UNCHANGED <<pipelineVars, frm, itp, scd>>

\* read_frame lines 113-117, 129: the pipe gives the whole chunk, or less at
\* the end of the stream; a short read returns None, a full one is returned
\* as it is unless the planar mode is on
ReadChunk ==
    /\ main.pc = "read"
    /\ \E n \in {main.inputFrameChunkSize, main.inputFrameChunkSize - 1} :
          main' = [main EXCEPT
                     !.read = n,
                     !.pc = IF n = main.inputFrameChunkSize /\ main.yuv420pMOD
                            THEN "reshape" ELSE "return",
                     !.chunk = IF n < main.inputFrameChunkSize THEN -1 ELSE n]
    /\ UNCHANGED <<pipelineVars, frm, itp, scd>>

\* read_frame lines 121-124: ndarray.reshape raises ValueError unless the
\* element counts agree
ReadReshape ==
    /\ main.pc = "reshape"
    /\ LET yuv_image_height == (main.height * 3) \div 2
       IN  main' = IF yuv_image_height * main.width = main.read
                   THEN [main EXCEPT !.pc = "cvtColor", !.rows = yuv_image_height]
                   ELSE [main EXCEPT !.pc = "raised", !.rows = yuv_image_height,
                                     !.chunk = -1, !.err = "ValueError"]
    /\ UNCHANGED <<pipelineVars, frm, itp, scd>>

\* read_frame lines 125-127: cv2.cvtColor(COLOR_YUV2RGB_I420) takes an image
\* of even width whose row count is a multiple of 3 and gives
\* (rows * 2 / 3) x width x 3 samples
ReadCvtColor ==
    /\ main.pc = "cvtColor"
    /\ main' = IF main.width % 2 = 0 /\ main.rows % 3 = 0
               THEN [main EXCEPT !.pc = "return",
                                 !.chunk = ((main.rows * 2) \div 3) * main.width * 3]
               ELSE [main EXCEPT !.pc = "raised", !.chunk = -1, !.err = "cv2.error"]
    /\ UNCHANGED <<pipelineVars, frm, itp, scd>>

NextRead == ReadInit \/ ReadChunk \/ ReadReshape \/ ReadCvtColor

SpecRead == InitRead /\ [][NextRead]_vars

\* C39: in planar yuv420p mode, for every positive width and height the
\* bytes read per frame (width * height * 3 // 2) are as many as the
\* elements of the (height * 3 // 2) x width image the chunk is reshaped to,
\* so a full read is converted without an error and gives an RGB buffer of
\* width * height * 3 bytes.
C39_FullReadConvertible ==
    (main.yuv420pMOD /\ main.read = main.inputFrameChunkSize) =>
        /\ main.err = ""
        /\ main.pc \in {"cvtColor", "return"} =>
              main.inputFrameChunkSize = main.rows * main.width
        /\ main.pc = "return" => main.chunk = main.width * main.height * 3

\* a 2 x 3 frame: 9 bytes were read and do not fill the 4 x 2 image
C39_OddHeightRaises ==
    /\ main.yuv420pMOD
    /\ main.width = 2
    /\ main.height = 3
    /\ main.read = 9
    /\ main.rows = 4
    /\ main.pc = "raised"
    /\ main.err = "ValueError"

\* even sizes: a 2 x 2 frame is read as 6 bytes and returned as 12
EvenSizeConverted ==
    /\ main.yuv420pMOD
    /\ main.width = 2
    /\ main.height = 2
    /\ main.read = 6
    /\ main.pc = "return"
    /\ main.chunk = 12

\* ---- resuming after a pause ----

\* the render loop saw the pause flag and is in its sleep(1)
RenderPaused == pc = "sleep"

\* the render loop is past readBuffer.get(): it holds what it pulled
RenderHasPulled == pc \notin {"check", "sleep", "get"}

\* C35: when the render loop is paused and the pause byte then holds a value
\* other than 1 for good, a fair scheduler lets the telemetry loop see it
\* (the flag is cleared) and lets the render loop pull from the source queue
\* again; for as long as the render loop is paused the telemetry loop is
\* running and its ticks read the pause byte.
C35_ResumeIsLive ==
    /\ []((RenderPaused /\ [](pauseByte # 1)) =>
             (<>(~Truthy(isPaused)) /\ <>RenderHasPulled))
    /\ [](RenderPaused =>
             (tpc = "loop" /\ ~stop /\ previewFrame # None /\ framesRendered > 0))

\* the loop slept through the one pause of the run, the byte was cleared, the
\* flag followed, and the loop has pulled a frame since
C35_Witness ==
    /\ h.slept
    /\ pauseWrites = 2
    /\ pauseByte = 0
    /\ ~Truthy(isPaused)
    /\ pc \in TransformPcs \cup {"fCount", "fPreview", "fPut"}
    /\ frame # None

====
